---- MODULE Spec2Model ----
(***************************************************************************)
(* A model of ch8-rs: the CHIP-8 / SUPER-CHIP / XO-CHIP instruction engine *)
(* (src/src/cpu.rs) and the engine/frontend thread protocol of             *)
(* Emulator::run and Stage::update (src/src/emulator.rs).                  *)
(***************************************************************************)
EXTENDS Integers, Sequences, FiniteSets, TLC

VARIABLES
    cpu,             \* the Cpu struct owned by the engine
    overflow_checks, \* build profile: TRUE = integer overflow panics, FALSE = it wraps
    now,             \* wall clock (Instant::now()), in milliseconds since construction
    last,            \* observation of the latest call of Cpu::tick
    skip_frames,     \* Emulator.skip_frames
    eng,             \* position of the cpu thread in Emulator::run
    instructions_done, \* the value the cpu thread got from tick()
    delay,           \* which delay branch the cpu thread took last
    perf_cpu,        \* perf_cpu.counter, the number of perf_cpu.wait() calls
    keys_ch,         \* sync_channel(1) tx_keys -> rx_keys
    disp_ch,         \* sync_channel(1) tx_disp -> rx_disp
    notify_ch,       \* sync_channel(1) tx_disp_notify -> rx_disp_notify
    front,           \* position of the frontend (Stage) in its event loop
    stage,           \* the Stage fields: cpu_keys, height, width, and the frame
                     \* its buffer was filled from
    obs              \* counters and observations of channel traffic

vars == <<cpu, overflow_checks, now, last, skip_frames, eng, instructions_done,
          delay, perf_cpu, keys_ch, disp_ch, notify_ch, front, stage, obs>>

(***************************************************************************)
(* Bounds of the model.                                                    *)
(***************************************************************************)
MaxSteps == 56      \* ticks a directly driven Cpu may execute
MaxTicks == 4       \* ticks the cpu thread may execute
MaxTime == 40       \* the clock stops advancing at MaxTime milliseconds
MaxRomSteps == 13   \* ticks a Cpu running a ROM on its own may execute
MaxClock == 2100    \* milliseconds a Cpu running a timer ROM is watched for
MaxClockSteps == 5  \* ticks a Cpu running a timer ROM may execute
MaxWaitSteps == 8   \* ticks a Cpu waiting for a key may execute

\* the keys that get pressed and released
PressedKeys == {0}

\* the keys a caller driving the Cpu directly presses and releases
DirectKeys == {0, 1}

(***************************************************************************)
(* Program constants.                                                      *)
(***************************************************************************)
WIDTH == 64
HEIGHT == 32
MEMSIZE == 65536
U8 == 256
U16 == 65536

(***************************************************************************)
(* Bit arithmetic on bytes and 16-bit words.                               *)
(***************************************************************************)
Pow2(k) == 2^k

Bit(a, k) == (a \div Pow2(k)) % 2

Shr(a, k) == a \div Pow2(k)

BitAnd(a, b) ==
    Bit(a,0)*Bit(b,0) + 2*Bit(a,1)*Bit(b,1) + 4*Bit(a,2)*Bit(b,2)
    + 8*Bit(a,3)*Bit(b,3) + 16*Bit(a,4)*Bit(b,4) + 32*Bit(a,5)*Bit(b,5)
    + 64*Bit(a,6)*Bit(b,6) + 128*Bit(a,7)*Bit(b,7)

BitOr(a, b) == a + b - BitAnd(a, b)

BitXor(a, b) == a + b - 2 * BitAnd(a, b)

(***************************************************************************)
(* Sparse byte arrays: a function from the indices holding a non-zero      *)
(* byte to that byte; every other index of the array holds 0.              *)
(***************************************************************************)
Empty == [a \in {} |-> 0]

Get(m, a) == IF a \in DOMAIN m THEN m[a] ELSE 0

Put(m, a, b) ==
    IF b = 0 THEN [x \in DOMAIN m \ {a} |-> m[x]]
    ELSE [x \in DOMAIN m \cup {a} |-> IF x = a THEN b ELSE m[x]]

\* copy_from_slice: m[at + k - 1] = seq[k] for every k in 1..Len(seq)
PutSeq(m, at, seq) ==
    LET n == Len(seq)
        dom == (DOMAIN m \ (at..(at + n - 1)))
               \cup {at + k - 1 : k \in {j \in 1..n : seq[j] # 0}}
    IN  [x \in dom |-> IF at <= x /\ x < at + n THEN seq[x - at + 1] ELSE m[x]]

\* the slice m[from .. from + n - 1] as a sequence
Slice(m, from, n) == [k \in 1..n |-> Get(m, from + k - 1)]

(***************************************************************************)
(* Timer (cpu.rs 11-59).  Instants are milliseconds; freq_hz is 60 and     *)
(* multi is the 1.0 that Emulator::run passes to Cpu::new.                 *)
(***************************************************************************)
FREQ_HZ == 60

\* the durations of whole milliseconds, up to 5 s, whose product
\* as_secs_f64() * 60.0 is an f64 just below the whole number it is in exact
\* arithmetic: 2.05 * 60.0 = 122.99999999999999, 4.1 * 60.0 = 245.99999999999997
steps_rounded_down == {2050, 4100}

\* steps = secs * freq_hz * multi in f64, cast to an integer
timer_steps(ms) ==
    (ms * FREQ_HZ) \div 1000 - (IF ms \in steps_rounded_down THEN 1 ELSE 0)

timer_new(t) == [start |-> t, last_update |-> t, reg_value |-> 0]

set_reg(tm, val, t) == [tm EXCEPT !.last_update = t, !.reg_value = val]

\* a read that subtracts on the u8 without the test for a register that has
\* run out
get_reg_wrapping(tm, t) ==
    (tm.reg_value - (timer_steps(t - tm.start)
                     - timer_steps(tm.last_update - tm.start))) % 256

get_reg(tm, t) ==
    IF tm.reg_value = 0 THEN 0
    ELSE LET diff == timer_steps(t - tm.start)
                     - timer_steps(tm.last_update - tm.start)
         IN  IF tm.reg_value < diff THEN 0 ELSE tm.reg_value - diff

\* None is <<>>, Some(d) is <<d>> with d in 1/60 s
time_left(tm) == IF tm.reg_value = 0 THEN <<>> ELSE <<tm.reg_value>>

(***************************************************************************)
(* Keyboard (cpu.rs 61-80).                                                *)
(***************************************************************************)
AllUp == [k \in 0..15 |-> "Up"]

keyboard_default == [keys |-> AllUp, prev_keys |-> AllUp]

\* Iterator::position: the lowest index that is Down, or -1 for None
pressed_position(keys) ==
    IF \E k \in 0..15 : keys[k] = "Down"
    THEN CHOOSE k \in 0..15 :
            keys[k] = "Down" /\ \A j \in 0..(k - 1) : keys[j] = "Up"
    ELSE -1

(***************************************************************************)
(* Plane (cpu.rs 82-194).  cells is a sparse array of height * width bytes *)
(* (the Vec is allocated with one byte per pixel); a row occupies width/8  *)
(* bytes.                                                                  *)
(***************************************************************************)
NonZero(f) == [a \in {x \in DOMAIN f : f[x] # 0} |-> f[a]]

plane_new(height, width) == [cells |-> Empty, width |-> width, height |-> height]

cells_len(p) == p.height * p.width

\* slice::rotate_right(k): the element at a moves to (a + k) mod len
rotate_right(cells, k, len) ==
    [j \in {(a + k) % len : a \in DOMAIN cells} |-> cells[(j - k + len) % len]]

\* slice::rotate_left(k): the element at a moves to (a - k) mod len
rotate_left(cells, k, len) ==
    [j \in {(a - k + len) % len : a \in DOMAIN cells} |-> cells[(j + k) % len]]

\* zero the bytes 0 .. k-1
zero_prefix(cells, k) == [a \in {x \in DOMAIN cells : x >= k} |-> cells[a]]

plane_scroll_down(p, n) ==
    LET k == (n * p.width) \div 8
    IN  [p EXCEPT !.cells = zero_prefix(rotate_right(p.cells, k, cells_len(p)), k)]

plane_scroll_up(p, n) ==
    LET k == (n * p.width) \div 8
    IN  [p EXCEPT !.cells = rotate_left(zero_prefix(p.cells, k), k, cells_len(p))]

\* one pass over all cells, the low nibble of each byte carried into the next
plane_scroll_right(p) ==
    LET old == p.cells
        dom == (DOMAIN old \cup {a + 1 : a \in DOMAIN old}) \cap (0..(cells_len(p) - 1))
    IN  [p EXCEPT !.cells =
            NonZero([j \in dom |-> Shr(Get(old, j), 4) + (Get(old, j - 1) % 16) * 16])]

\* one reverse pass, the high nibble of each byte carried into the previous
plane_scroll_left(p) ==
    LET old == p.cells
        dom == (DOMAIN old \cup {a - 1 : a \in DOMAIN old}) \cap (0..(cells_len(p) - 1))
        nxt(j) == IF j + 1 < cells_len(p) THEN Get(old, j + 1) ELSE 0
    IN  [p EXCEPT !.cells =
            NonZero([j \in dom |-> ((Get(old, j) * 16) % 256) + Shr(nxt(j), 4)])]

plane_clear(p) ==
    [p EXCEPT !.cells =
        [a \in {x \in DOMAIN p.cells : x >= p.height * (p.width \div 8)} |-> p.cells[a]]]

\* the 16-bit window of two adjacent bytes of row y, wrapping at the row's end
byte_window(p, x, y) ==
    LET offs_bytes == x \div 8
        line_offs == (y * p.width) \div 8
    IN  Get(p.cells, line_offs + offs_bytes) * 256
        + Get(p.cells, line_offs + ((offs_bytes + 1) % (p.width \div 8)))

get_byte(p, x, y) ==
    LET offs_bits == x % 8
    IN  Shr(byte_window(p, x, y), 8 - offs_bits) % 256

\* the window with the 8 bits at offs_bits replaced by val
merge_word(word, offs_bits, val) ==
    (Shr(word, 16 - offs_bits) * Pow2(16 - offs_bits)
        + val * Pow2(8 - offs_bits) + (word % Pow2(8 - offs_bits))) % 65536

\* the window written back: its high byte to a0, its low byte to a1
put_word(p, a0, a1, word) ==
    [p EXCEPT !.cells = Put(Put(p.cells, a0, Shr(word, 8) % 256), a1, word % 256)]

set_byte(p, x, y, val) ==
    LET offs_bytes == x \div 8
        line_offs == (y * p.width) \div 8
    IN  put_word(p, line_offs + offs_bytes,
                 line_offs + ((offs_bytes + 1) % (p.width \div 8)),
                 merge_word(byte_window(p, x, y), x % 8, val))

\* a row written with or in place of xor
or_byte(p, x, y_roll, val) == set_byte(p, x, y_roll, BitOr(get_byte(p, x, y_roll), val))

\* one row of Plane::write_sprite: the byte at (x, y_roll) xor-ed with val
xor_byte(p, x, y_roll, val) == set_byte(p, x, y_roll, BitXor(get_byte(p, x, y_roll), val))

\* rows i .. Len(sprite) of Plane::write_sprite, x and y already reduced;
\* every row takes its line modulo the height of the plane written so far
RECURSIVE sprite_rows(_, _, _, _, _, _)
sprite_rows(p, sprite, x, y, i, collision) ==
    IF p.height = 0 \/ i >= Len(sprite) THEN [plane |-> p, collision |-> collision]
    ELSE sprite_rows(xor_byte(p, x, (y + i) % p.height, sprite[i + 1]),
                     sprite, x, y, i + 1,
                     collision \/ BitAnd(get_byte(p, x, (y + i) % p.height),
                                         sprite[i + 1]) # 0)

plane_write_sprite(p, sprite, x, y) ==
    sprite_rows(p, sprite, x % (p.width % 256), y % (p.height % 256), 0, FALSE)

\* every second byte of a 32-byte sprite, from offset k (0: left, 1: right)
sprite_column(sprite, k) == [r \in 1..16 |-> sprite[2 * (r - 1) + k + 1]]

\* Plane::write_sprite16; ok is FALSE when x + 8 overflows u8 in a checked build
sprite16_both(l, r) ==
    [plane |-> r.plane, collision |-> l.collision \/ r.collision, ok |-> TRUE]

\* the right half, written at x + 8 after the left half l
sprite16_right(l, sprite, x, y, oc) ==
    IF x + 8 > 255 /\ oc
    THEN [plane |-> l.plane, collision |-> l.collision, ok |-> FALSE]
    ELSE sprite16_both(l, plane_write_sprite(l.plane, sprite_column(sprite, 1),
                                             (x + 8) % 256, y))

plane_write_sprite16(p, sprite, x, y, oc) ==
    sprite16_right(plane_write_sprite(p, sprite_column(sprite, 0), x, y),
                   sprite, x, y, oc)

(***************************************************************************)
(* Display (cpu.rs 196-368).                                               *)
(***************************************************************************)
DefaultColors == <<11158528, 16755200, 11184810, 0>>

display_new(height, width) ==
    [planes |-> <<plane_new(height, width), plane_new(height, width)>>,
     width |-> width, height |-> height, updates |-> 0, updated |-> TRUE,
     extended |-> FALSE, colors |-> DefaultColors, active_planes |-> 1]

\* a mode switch that changes the size and keeps the planes
set_extended_keeps_planes(d, ext) ==
    [d EXCEPT !.height = IF ext THEN HEIGHT * 2 ELSE HEIGHT,
              !.width = IF ext THEN WIDTH * 2 ELSE WIDTH, !.extended = ext]

set_extended(d, ext) ==
    LET h == IF ext THEN HEIGHT * 2 ELSE HEIGHT
        w == IF ext THEN WIDTH * 2 ELSE WIDTH
    IN  [d EXCEPT !.height = h, !.width = w, !.extended = ext,
                  !.planes = <<plane_new(h, w), plane_new(h, w)>>]

\* a flag_updated that sets the flag and leaves the counter
flag_updated_no_count(d) == [d EXCEPT !.updated = TRUE]

flag_updated(d) == [d EXCEPT !.updated = TRUE, !.updates = d.updates + 1]

\* (self.active_planes >> i) & 0x1 == 1
plane_active(d, i) == (Shr(d.active_planes, i) % 2) = 1

\* a frame that takes the low bit of the index from plane 1 and the high bit
\* from plane 0
buf_pixel_swapped(d, k) ==
    LET at == (k \div d.width) * (d.width \div 8) + ((k % d.width) \div 8)
        b0 == Shr(Get(d.planes[1].cells, at), 7 - (k % 8)) % 2
        b1 == Shr(Get(d.planes[2].cells, at), 7 - (k % 8)) % 2
    IN  d.colors[b1 + 2 * b0 + 1]

\* the colour of pixel k (row-major, from 0) of the frame
buf_pixel(d, k) ==
    LET y == k \div d.width
        x == (k % d.width) \div 8
        bit == k % 8
        at == y * (d.width \div 8) + x
        b0 == Shr(Get(d.planes[1].cells, at), 7 - bit) % 2
        b1 == Shr(Get(d.planes[2].cells, at), 7 - bit) % 2
    IN  d.colors[b0 + 2 * b1 + 1]

\* the number of entries the loops of to_buf push: 8 for each byte of a row
buf_len(d) == d.height * (d.width \div 8) * 8

to_buf(d) == [k \in 1..buf_len(d) |-> buf_pixel(d, k - 1)]

display_scroll_down(d, n) ==
    flag_updated([d EXCEPT !.planes = [i \in 1..2 |->
        IF plane_active(d, i - 1) THEN plane_scroll_down(d.planes[i], n)
        ELSE d.planes[i]]])

display_scroll_up(d, n) ==
    flag_updated([d EXCEPT !.planes = [i \in 1..2 |->
        IF plane_active(d, i - 1) THEN plane_scroll_up(d.planes[i], n)
        ELSE d.planes[i]]])

display_scroll_right(d) ==
    flag_updated([d EXCEPT !.planes = [i \in 1..2 |->
        IF plane_active(d, i - 1) THEN plane_scroll_right(d.planes[i])
        ELSE d.planes[i]]])

display_scroll_left(d) ==
    flag_updated([d EXCEPT !.planes = [i \in 1..2 |->
        IF plane_active(d, i - 1) THEN plane_scroll_left(d.planes[i])
        ELSE d.planes[i]]])

display_clear(d) ==
    flag_updated([d EXCEPT !.planes = [i \in 1..2 |->
        IF plane_active(d, i - 1) THEN plane_clear(d.planes[i])
        ELSE d.planes[i]]])

\* Display::write_sprite: the display afterwards and the collision flag
\* both planes drawing the first half of the bytes
plane_sprite_first_half(d, sprite, i) ==
    IF d.active_planes = 3 THEN SubSeq(sprite, 1, Len(sprite) \div 2) ELSE sprite

\* the sprite bytes plane i (0 or 1) draws: a half when both planes are active
plane_sprite(d, sprite, i) ==
    IF d.active_planes = 3
    THEN SubSeq(sprite, i * (Len(sprite) \div 2) + 1,
                IF i = 0 THEN Len(sprite) \div 2 ELSE Len(sprite))
    ELSE sprite

\* whether a sprite write reaches plane i
plane_drawn(d, i) == d.active_planes = 3 \/ plane_active(d, i)

\* the display after the writes w0, w1 to its planes, and the collision flag
sprite_written(d, w0, w1) ==
    [display |-> flag_updated([d EXCEPT !.planes =
                        <<IF plane_drawn(d, 0) THEN w0.plane ELSE d.planes[1],
                          IF plane_drawn(d, 1) THEN w1.plane ELSE d.planes[2]>>]),
     collision |-> (plane_drawn(d, 0) /\ w0.collision)
                       \/ (plane_drawn(d, 1) /\ w1.collision),
     ok |-> (plane_drawn(d, 0) => w0.ok) /\ (plane_drawn(d, 1) => w1.ok)]

plane_written(w) == [plane |-> w.plane, collision |-> w.collision, ok |-> TRUE]

display_write_sprite(d, sprite, x, y) ==
    sprite_written(d,
        plane_written(plane_write_sprite(d.planes[1], plane_sprite(d, sprite, 0), x, y)),
        plane_written(plane_write_sprite(d.planes[2], plane_sprite(d, sprite, 1), x, y)))

\* Display::write_sprite16; ok is FALSE when a plane's write panics
display_write_sprite16(d, sprite, x, y, oc) ==
    sprite_written(d,
        plane_write_sprite16(d.planes[1], plane_sprite(d, sprite, 0), x, y, oc),
        plane_write_sprite16(d.planes[2], plane_sprite(d, sprite, 1), x, y, oc))

std_sprites ==
    <<240, 144, 144, 144, 240, 32, 96, 32, 32, 112, 240, 16, 240, 128,
      240, 240, 16, 240, 16, 240, 144, 144, 240, 16, 16, 240, 128, 240,
      16, 240, 240, 128, 240, 144, 240, 240, 16, 32, 64, 64, 240, 144,
      240, 144, 240, 240, 144, 240, 16, 240, 240, 144, 240, 144, 144, 224,
      144, 224, 144, 224, 240, 128, 128, 128, 240, 224, 144, 144, 144, 224,
      240, 128, 240, 128, 240, 240, 128, 240, 128, 128>>

hires_sprites ==
    <<60, 126, 231, 195, 195, 195, 195, 231, 126, 60, 24, 56, 88, 24,
      24, 24, 24, 24, 24, 60, 62, 127, 195, 6, 12, 24, 48, 96,
      255, 255, 60, 126, 195, 3, 14, 14, 3, 195, 126, 60, 6, 14,
      30, 54, 102, 198, 255, 255, 6, 6, 255, 255, 192, 192, 252, 254,
      3, 195, 126, 60, 62, 124, 192, 192, 252, 254, 195, 195, 126, 60,
      255, 255, 3, 6, 12, 24, 48, 96, 96, 96, 60, 126, 195, 195,
      126, 126, 195, 195, 126, 60, 60, 126, 195, 195, 127, 63, 3, 3,
      62, 124>>

(***************************************************************************)
(* Cpu (cpu.rs 370-457).                                                   *)
(***************************************************************************)
cpu_default(t) ==
    [display |-> display_new(HEIGHT, WIDTH),
     keyboard |-> keyboard_default,
     sound |-> [audio_stream |-> FALSE],
     sound_memory |-> [k \in 0..15 |-> 170],
     dt |-> timer_new(t),
     st |-> timer_new(t),
     memory |-> Empty,
     v |-> [k \in 0..15 |-> 0],
     pc |-> 512,
     sp |-> 0,
     stack |-> [k \in 0..15 |-> 0],
     i |-> 0,
     clock_steps |-> 0,
     repl |-> [k \in 0..7 |-> 0]]

\* Cpu::new panics (slice out of range) unless the code fits from 0x200
cpu_new_ok(code) == 512 + Len(code) <= MEMSIZE

cpu_new(code, t) ==
    [cpu_default(t) EXCEPT
        !.memory = PutSeq(PutSeq(PutSeq(Empty, 0, std_sprites), 80, hires_sprites),
                          512, code),
        !.pc = 512]

\* Cpu::new as its caller sees it: the Cpu ("none": nothing has failed), or
\* the panic of the slice memory[0x200..0x200 + code.len()] (no Cpu comes
\* into being: cpu is the value Self::default() built before the panic)
cpu_new_result(code, t) ==
    IF cpu_new_ok(code) THEN [res |-> "none", cpu |-> cpu_new(code, t)]
    ELSE [res |-> "panic", cpu |-> cpu_default(t)]

\* a completed step, and a step that panicked (the Cpu as it was on entry:
\* the unwinding drops it)
Done(c) == [ok |-> TRUE, cpu |-> c, played |-> <<>>]

Panic(c) == [ok |-> FALSE, cpu |-> c, played |-> <<>>]

read_memory(mem, addr) == Get(mem, addr) * 256 + Get(mem, addr + 1)

\* read_memory indexes mem[addr + 1]
read_in_range(addr) == addr + 1 < MEMSIZE

next_instruction(c) == read_memory(c.memory, c.pc)

\* self.pc += 2 on a u16
add_pc(c, oc) ==
    IF c.pc + 2 >= U16
    THEN IF oc THEN Panic(c) ELSE Done([c EXCEPT !.pc = (c.pc + 2) % U16])
    ELSE Done([c EXCEPT !.pc = c.pc + 2])

skip_instruction(c, oc) ==
    LET r1 == add_pc(c, oc)
    IN  IF ~r1.ok THEN r1
        ELSE IF ~read_in_range(r1.cpu.pc) THEN Panic(c)
        ELSE IF next_instruction(r1.cpu) = 61440 THEN add_pc(r1.cpu, oc)
        ELSE r1

(***************************************************************************)
(* The instructions (cpu.rs 459-780).  Each op_ operator is one match arm  *)
(* up to, and not including, the final self.pc += 2.                       *)
(***************************************************************************)
set_v(c, x, val) == [c EXCEPT !.v[x] = val]

\* self.v[x] = val; self.v[0xF] = vf
set_v_flag(c, x, val, vf) == [c EXCEPT !.v = [[c.v EXCEPT ![x] = val] EXCEPT ![15] = vf]]

\* 00EE: pc = stack[sp]; sp = sp - 1
op_ret(c, oc) ==
    IF c.sp > 15 THEN Panic(c)
    ELSE IF c.sp = 0
         THEN IF oc THEN Panic(c)
              ELSE Done([c EXCEPT !.pc = c.stack[c.sp], !.sp = U8 - 1])
         ELSE Done([c EXCEPT !.pc = c.stack[c.sp], !.sp = c.sp - 1])

\* 2nnn: sp = sp + 1; stack[sp] = pc; pc = nnn
op_call(c, nnn, oc) ==
    LET sp1 == IF c.sp + 1 >= U8 THEN 0 ELSE c.sp + 1
    IN  IF c.sp + 1 >= U8 /\ oc THEN Panic(c)
        ELSE IF sp1 > 15 THEN Panic(c)
        ELSE Done([c EXCEPT !.sp = sp1, !.stack[sp1] = c.pc, !.pc = nnn])

\* 3xkk 4xkk 5xy0 9xy0: if cond { self.skip_instruction() }
op_skip_if(c, cond, oc) == IF cond THEN skip_instruction(c, oc) ELSE Done(c)

\* Ex9E / ExA1: keys[v[x]] compared with want
op_skip_key(c, x, want, oc) ==
    IF c.v[x] > 15 THEN Panic(c)
    ELSE op_skip_if(c, c.keyboard.keys[c.v[x]] = want, oc)

\* 5xy2: memory[i .. i + (y - x) + 1] = v[x .. y + 1]
op_save_range(c, x, y, oc) ==
    IF x > y
    THEN IF oc \/ x # y + 1 THEN Panic(c) ELSE Done(c)
    ELSE IF c.i + (y - x) + 1 > MEMSIZE THEN Panic(c)
    ELSE Done([c EXCEPT !.memory =
                 PutSeq(c.memory, c.i, [k \in 1..(y - x + 1) |-> c.v[x + k - 1]])])

\* 5xy3: v[x .. y + 1] = memory[i .. i + (y - x) + 1]
op_load_range(c, x, y, oc) ==
    IF x > y
    THEN IF oc \/ x # y + 1 THEN Panic(c) ELSE Done(c)
    ELSE IF c.i + (y - x) + 1 > MEMSIZE THEN Panic(c)
    ELSE Done([c EXCEPT !.v = [k \in 0..15 |->
                 IF x <= k /\ k <= y THEN Get(c.memory, c.i + (k - x)) ELSE c.v[k]]])

\* an ADD that writes the flag first and then adds what the registers hold
\* a 7xkk that loads kk
op_add_kk_loads(c, x, kk) == Done(set_v(c, x, kk))

\* 7xkk: wrapping add of the byte, no flag
op_add_kk(c, x, kk) == Done(set_v(c, x, (c.v[x] + kk) % 256))

op_add_flag_first(c, x, y) ==
    LET c1 == set_v(c, 15, IF c.v[x] + c.v[y] > 255 THEN 1 ELSE 0)
    IN  Done(set_v(c1, x, (c1.v[x] + c1.v[y]) % 256))

\* 8xy4
op_add(c, x, y) ==
    LET res == c.v[x] + c.v[y]
    IN  Done(set_v_flag(c, x, res % 256, IF res > 255 THEN 1 ELSE 0))

\* a subtraction whose flag tells a borrow, not its absence
op_sub_borrow_flag(c, x, a, b) ==
    Done(set_v_flag(c, x, (a - b + 256) % 256, IF a < b THEN 1 ELSE 0))

\* 8xy5 (a = v[x], b = v[y]) and 8xy7 (a = v[y], b = v[x]): res = a - b
op_sub(c, x, a, b) ==
    LET res == a - b
    IN  Done(set_v_flag(c, x, (IF res < 0 THEN 256 + res ELSE res) % 256,
                        IF res < 0 THEN 0 ELSE 1))

\* 8xy6
op_shr(c, x, y) == Done(set_v_flag(c, x, Shr(c.v[y], 1), c.v[y] % 2))

\* 8xyE: v[0xF] is written first, then v[x] = v[y] << 1 reads v[y] again
op_shl(c, x, y) ==
    LET c1 == set_v(c, 15, Shr(c.v[y], 7) % 2)
    IN  Done(set_v(c1, x, (c1.v[y] * 2) % 256))

\* a jump that adds the register the second nibble names
op_jp_vx(c, x, nnn) == Done([c EXCEPT !.pc = nnn + c.v[x]])

\* Bnnn: pc = nnn + v[0]; x is the second nibble of the word
op_jp_v0(c, x, nnn) == Done([c EXCEPT !.pc = nnn + c.v[0]])

\* Dxyn
drw_len(c, n) ==
    IF n = 0 THEN (IF c.display.active_planes = 3 THEN 64 ELSE 32)
    ELSE (IF c.display.active_planes = 3 THEN n * 2 ELSE n)

\* a DRW that sets the flag whenever the write changed the display
drw_done_on_change(c, w) ==
    IF ~w.ok THEN Panic(c)
    ELSE Done(set_v([c EXCEPT !.display = w.display], 15,
                    IF w.display.planes # c.display.planes THEN 1 ELSE 0))

\* self.v[0xF] = collision, after the write w to the display
drw_done(c, w) ==
    IF ~w.ok THEN Panic(c)
    ELSE Done(set_v([c EXCEPT !.display = w.display], 15,
                    IF w.collision THEN 1 ELSE 0))

op_drw(c, x, y, n, oc) ==
    IF c.i + drw_len(c, n) > MEMSIZE THEN Panic(c)
    ELSE IF n = 0
    THEN drw_done(c, display_write_sprite16(c.display,
                         Slice(c.memory, c.i, drw_len(c, n)), c.v[x], c.v[y], oc))
    ELSE drw_done(c, display_write_sprite(c.display,
                         Slice(c.memory, c.i, drw_len(c, n)), c.v[x], c.v[y]))

\* a load of the literal that leaves pc on the first word
op_ld_i_long_in_place(c, oc) ==
    IF ~read_in_range(c.pc + 2) THEN Panic(c)
    ELSE Done([c EXCEPT !.i = read_memory(c.memory, c.pc + 2)])

\* F000 NNNN: pc += 2; i = the word at pc
op_ld_i_long(c, oc) ==
    LET r1 == add_pc(c, oc)
    IN  IF ~r1.ok THEN r1
        ELSE IF ~read_in_range(r1.cpu.pc) THEN Panic(c)
        ELSE Done([r1.cpu EXCEPT !.i = read_memory(r1.cpu.memory, r1.cpu.pc)])

\* F002
op_ld_pattern(c) ==
    IF c.i + 16 > MEMSIZE THEN Panic(c)
    ELSE Done([c EXCEPT !.sound_memory = [k \in 0..15 |-> Get(c.memory, c.i + k)]])

\* an Fx0A that leaves prev_keys as it was
op_wait_key_keeps_prev(c, x) ==
    LET pressed_key == pressed_position(c.keyboard.keys)
        key_change == pressed_key >= 0 /\ c.keyboard.prev_keys[pressed_key] = "Up"
    IN  [cpu |-> IF key_change THEN set_v(c, x, pressed_key) ELSE c,
         advance |-> key_change]

\* Fx0A; advance tells whether the final pc += 2 is reached
op_wait_key(c, x) ==
    LET pressed_key == pressed_position(c.keyboard.keys)
        key_change == pressed_key >= 0 /\ c.keyboard.prev_keys[pressed_key] = "Up"
        c1 == IF key_change THEN set_v(c, x, pressed_key) ELSE c
    IN  [cpu |-> [c1 EXCEPT !.keyboard.prev_keys = c.keyboard.keys],
         advance |-> key_change]

\* an Fx18 that hands the pattern over whatever the value is
op_ld_st_always(c, x, t) ==
    [ok |-> TRUE, cpu |-> [c EXCEPT !.st = set_reg(c.st, c.v[x], t)],
     played |-> <<c.sound_memory, c.v[x]>>]

\* Fx18: arm the sound timer and hand the pattern to Sound::play_samples_1bit,
\* which unwraps the audio stream
op_ld_st(c, x, t) ==
    LET c1 == [c EXCEPT !.st = set_reg(c.st, c.v[x], t)]
        duration == time_left(c1.st)
    IN  IF duration = <<>> THEN Done(c1)
        ELSE IF ~c.sound.audio_stream THEN Panic(c)
        ELSE [ok |-> TRUE, cpu |-> c1, played |-> <<c1.sound_memory, duration[1]>>]

\* Fx1E: i += v[x] on a u16
op_add_i(c, x, oc) ==
    IF c.i + c.v[x] >= U16
    THEN IF oc THEN Panic(c) ELSE Done([c EXCEPT !.i = (c.i + c.v[x]) % U16])
    ELSE Done([c EXCEPT !.i = c.i + c.v[x]])

\* Fx33
op_bcd(c, x) ==
    IF c.i + 3 > MEMSIZE THEN Panic(c)
    ELSE Done([c EXCEPT !.memory =
            PutSeq(c.memory, c.i,
                   <<c.v[x] \div 100, (c.v[x] \div 10) % 10, c.v[x] % 10>>)])

\* Fx55
op_save_v(c, x) ==
    IF c.i + x + 1 > MEMSIZE THEN Panic(c)
    ELSE Done([c EXCEPT !.memory =
                 PutSeq(c.memory, c.i, [k \in 1..(x + 1) |-> c.v[k - 1]])])

\* Fx65
op_load_v(c, x) ==
    IF c.i + x + 1 > MEMSIZE THEN Panic(c)
    ELSE Done([c EXCEPT !.v = [k \in 0..15 |->
                 IF k <= x THEN Get(c.memory, c.i + k) ELSE c.v[k]]])

\* Fx75: repl[0 .. x + 1] = v[0 .. x + 1], repl holding 8 bytes
op_save_repl(c, x) ==
    IF x + 1 > 8 THEN Panic(c)
    ELSE Done([c EXCEPT !.repl = [k \in 0..7 |-> IF k <= x THEN c.v[k] ELSE c.repl[k]]])

\* Fx85: v[0 .. x + 1] = memory[0 .. x + 1]
op_load_repl(c, x) ==
    Done([c EXCEPT !.v = [k \in 0..15 |->
            IF k <= x THEN Get(c.memory, k) ELSE c.v[k]]])

Nibble(instr, k) == Shr(instr, 4 * (3 - k)) % 16

\* the final self.pc += 2 of process_instruction, after a match arm
then_add_pc(r, oc) ==
    IF ~r.ok THEN r
    ELSE LET a == add_pc(r.cpu, oc)
         IN  [ok |-> a.ok, cpu |-> a.cpu, played |-> r.played]

\* whether the word matches one of the match arms of process_instruction
known_opcode(instr) ==
    LET n0 == Nibble(instr, 0)
        n1 == Nibble(instr, 1)
        n2 == Nibble(instr, 2)
        n3 == Nibble(instr, 3)
    IN  \/ n0 = 0 /\ n1 = 0 /\ n2 \in {12, 13}
        \/ n0 = 0 /\ n2 = 14 /\ n3 \in {0, 14}
        \/ n0 = 0 /\ n1 = 0 /\ n2 = 15 /\ n3 \in {11, 12, 13, 14, 15}
        \/ n0 \in {1, 2, 3, 4, 6, 7, 9, 10, 11, 12, 13}
        \/ n0 = 5 /\ n3 \in {0, 2, 3}
        \/ n0 = 8 /\ n3 \in {0, 1, 2, 3, 4, 5, 6, 7, 14}
        \/ n0 = 14 /\ ((n2 = 9 /\ n3 = 14) \/ (n2 = 10 /\ n3 = 1))
        \/ n0 = 15 /\ n1 = 0 /\ n2 = 0 /\ n3 \in {0, 2}
        \/ n0 = 15 /\ <<n2, n3>> \in {<<0, 1>>, <<0, 7>>, <<0, 10>>, <<1, 5>>,
                <<1, 8>>, <<1, 14>>, <<2, 9>>, <<3, 0>>, <<3, 3>>, <<5, 5>>,
                <<6, 5>>, <<7, 5>>, <<8, 5>>}

\* process_instruction: rnd is the byte rand::random gives, t is Instant::now(),
\* oc tells whether integer overflow panics
process_instruction(c, instr, rnd, t, oc) ==
    LET n0 == Nibble(instr, 0)
        n1 == Nibble(instr, 1)
        n2 == Nibble(instr, 2)
        n3 == Nibble(instr, 3)
        x == n1
        y == n2
        nnn == instr % 4096
        kk == instr % 256
        d == c.display
        wk == op_wait_key(c, x)
    IN  CASE n0 = 0 /\ n1 = 0 /\ n2 = 12 ->
               then_add_pc(Done([c EXCEPT !.display = display_scroll_down(d, n3)]), oc)
          [] n0 = 0 /\ n1 = 0 /\ n2 = 13 ->
               then_add_pc(Done([c EXCEPT !.display = display_scroll_up(d, n3)]), oc)
          [] n0 = 0 /\ n2 = 14 /\ n3 = 0 ->
               then_add_pc(Done([c EXCEPT !.display = display_clear(d)]), oc)
          [] n0 = 0 /\ n2 = 14 /\ n3 = 14 -> then_add_pc(op_ret(c, oc), oc)
          [] n0 = 0 /\ n1 = 0 /\ n2 = 15 /\ n3 = 11 ->
               then_add_pc(Done([c EXCEPT !.display = display_scroll_right(d)]), oc)
          [] n0 = 0 /\ n1 = 0 /\ n2 = 15 /\ n3 = 12 ->
               then_add_pc(Done([c EXCEPT !.display = display_scroll_left(d)]), oc)
          [] n0 = 0 /\ n1 = 0 /\ n2 = 15 /\ n3 = 13 -> then_add_pc(Done(c), oc)
          [] n0 = 0 /\ n1 = 0 /\ n2 = 15 /\ n3 = 14 ->
               then_add_pc(Done([c EXCEPT !.display = set_extended(d, FALSE)]), oc)
          [] n0 = 0 /\ n1 = 0 /\ n2 = 15 /\ n3 = 15 ->
               then_add_pc(Done([c EXCEPT !.display = set_extended(d, TRUE)]), oc)
          [] n0 = 1 -> Done([c EXCEPT !.pc = nnn])
          [] n0 = 2 -> op_call(c, nnn, oc)
          [] n0 = 3 -> then_add_pc(op_skip_if(c, c.v[x] = kk, oc), oc)
          [] n0 = 4 -> then_add_pc(op_skip_if(c, c.v[x] # kk, oc), oc)
          [] n0 = 5 /\ n3 = 0 -> then_add_pc(op_skip_if(c, c.v[x] = c.v[y], oc), oc)
          [] n0 = 5 /\ n3 = 2 -> then_add_pc(op_save_range(c, x, y, oc), oc)
          [] n0 = 5 /\ n3 = 3 -> then_add_pc(op_load_range(c, x, y, oc), oc)
          [] n0 = 6 -> then_add_pc(Done(set_v(c, x, kk)), oc)
          [] n0 = 7 -> then_add_pc(op_add_kk(c, x, kk), oc)
          [] n0 = 8 /\ n3 = 0 -> then_add_pc(Done(set_v(c, x, c.v[y])), oc)
          [] n0 = 8 /\ n3 = 1 ->
               then_add_pc(Done(set_v(c, x, BitOr(c.v[x], c.v[y]))), oc)
          [] n0 = 8 /\ n3 = 2 ->
               then_add_pc(Done(set_v(c, x, BitAnd(c.v[x], c.v[y]))), oc)
          [] n0 = 8 /\ n3 = 3 ->
               then_add_pc(Done(set_v(c, x, BitXor(c.v[x], c.v[y]))), oc)
          [] n0 = 8 /\ n3 = 4 -> then_add_pc(op_add(c, x, y), oc)
          [] n0 = 8 /\ n3 = 5 -> then_add_pc(op_sub(c, x, c.v[x], c.v[y]), oc)
          [] n0 = 8 /\ n3 = 6 -> then_add_pc(op_shr(c, x, y), oc)
          [] n0 = 8 /\ n3 = 7 -> then_add_pc(op_sub(c, x, c.v[y], c.v[x]), oc)
          [] n0 = 8 /\ n3 = 14 -> then_add_pc(op_shl(c, x, y), oc)
          [] n0 = 9 -> then_add_pc(op_skip_if(c, c.v[x] # c.v[y], oc), oc)
          [] n0 = 10 -> then_add_pc(Done([c EXCEPT !.i = nnn]), oc)
          [] n0 = 11 -> op_jp_v0(c, x, nnn)
          [] n0 = 12 -> then_add_pc(Done(set_v(c, x, BitAnd(rnd, kk))), oc)
          [] n0 = 13 -> then_add_pc(op_drw(c, x, y, n3, oc), oc)
          [] n0 = 14 /\ n2 = 9 /\ n3 = 14 ->
               then_add_pc(op_skip_key(c, x, "Down", oc), oc)
          [] n0 = 14 /\ n2 = 10 /\ n3 = 1 ->
               then_add_pc(op_skip_key(c, x, "Up", oc), oc)
          [] n0 = 15 /\ n1 = 0 /\ n2 = 0 /\ n3 = 0 ->
               then_add_pc(op_ld_i_long(c, oc), oc)
          [] n0 = 15 /\ n2 = 0 /\ n3 = 1 ->
               then_add_pc(Done([c EXCEPT !.display.active_planes = n1]), oc)
          [] n0 = 15 /\ n1 = 0 /\ n2 = 0 /\ n3 = 2 ->
               then_add_pc(op_ld_pattern(c), oc)
          [] n0 = 15 /\ n2 = 0 /\ n3 = 7 ->
               then_add_pc(Done(set_v(c, x, get_reg(c.dt, t))), oc)
          [] n0 = 15 /\ n2 = 0 /\ n3 = 10 ->
               IF wk.advance THEN then_add_pc(Done(wk.cpu), oc) ELSE Done(wk.cpu)
          [] n0 = 15 /\ n2 = 1 /\ n3 = 5 ->
               then_add_pc(Done([c EXCEPT !.dt = set_reg(c.dt, c.v[x], t)]), oc)
          [] n0 = 15 /\ n2 = 1 /\ n3 = 8 -> then_add_pc(op_ld_st(c, x, t), oc)
          [] n0 = 15 /\ n2 = 1 /\ n3 = 14 -> then_add_pc(op_add_i(c, x, oc), oc)
          [] n0 = 15 /\ n2 = 2 /\ n3 = 9 ->
               then_add_pc(Done([c EXCEPT !.i = c.v[x] * 5]), oc)
          [] n0 = 15 /\ n2 = 3 /\ n3 = 0 ->
               then_add_pc(Done([c EXCEPT !.i = c.v[x] * 10 + 16 * 5]), oc)
          [] n0 = 15 /\ n2 = 3 /\ n3 = 3 -> then_add_pc(op_bcd(c, x), oc)
          [] n0 = 15 /\ n2 = 5 /\ n3 = 5 -> then_add_pc(op_save_v(c, x), oc)
          [] n0 = 15 /\ n2 = 6 /\ n3 = 5 -> then_add_pc(op_load_v(c, x), oc)
          [] n0 = 15 /\ n2 = 7 /\ n3 = 5 -> then_add_pc(op_save_repl(c, x), oc)
          [] n0 = 15 /\ n2 = 8 /\ n3 = 5 -> then_add_pc(op_load_repl(c, x), oc)
          [] OTHER -> Panic(c)

\* Cpu::tick: what the call returns ("ok" for Ok(instr), "err" for Err, "panic"
\* when it unwinds), the word fetched, and the Cpu afterwards
ticked(c, instr, r) ==
    IF r.ok
    THEN [res |-> "ok", instr |-> instr,
          cpu |-> [r.cpu EXCEPT !.clock_steps = c.clock_steps + 1],
          played |-> r.played]
    ELSE [res |-> "panic", instr |-> instr, cpu |-> c, played |-> <<>>]

tick(c, rnd, t, oc) ==
    IF ~read_in_range(c.pc)
    THEN [res |-> "panic", instr |-> 0, cpu |-> c, played |-> <<>>]
    ELSE ticked(c, next_instruction(c),
                process_instruction(c, next_instruction(c), rnd, t, oc))

(***************************************************************************)
(* Programs the model loads.                                               *)
(***************************************************************************)
\* the bytes of a sequence of big-endian 16-bit words
Bytes(ws) ==
    [k \in 1..(2 * Len(ws)) |->
        IF k % 2 = 1 THEN ws[(k + 1) \div 2] \div 256 ELSE ws[k \div 2] % 256]

\* every conditional skip, over a plain instruction and over F000 NNNN
ProgSkip ==
    Bytes(<<\hC003, \hC103,          \* 200: V0, V1 = random 0..3
            \h3001, \hF000, \h1234,  \* 204: SE V0,1 over LD I,0x1234
            \h4002, \h6205,          \* 20A: SNE V0,2 over LD V2,5
            \h5010, \hF000, \h0300,  \* 20E: SE V0,V1 over LD I,0x0300
            \h9010, \h6306,          \* 214: SNE V0,V1 over LD V3,6
            \hE09E, \hF000, \h0123,  \* 218: SKP V0 over LD I,0x0123
            \hE1A1, \h6407,          \* 21E: SKNP V1 over LD V4,7
            \h1222>>)                \* 222: JP 0x222

\* recursion of random depth, then a CALL of a subroutine that is one RET
ProgCall ==
    [k \in 1..258 |->
        CASE k <= 10 -> Bytes(<<\hC001,      \* 200: V0 = random 0..1
                                \h3000,      \* 202: SE V0,0
                                \h2200,      \* 204: CALL 0x200
                                \h2300,      \* 206: CALL 0x300
                                \h1208>>)[k] \* 208: JP 0x208
          [] k = 257 -> 0                    \* 300: RET (00EE)
          [] k = 258 -> \hEE
          [] OTHER -> 0]

\* words that match no arm of process_instruction
ProgUnknown0 == <<>>

ProgUnknown5 == Bytes(<<\h6A01, \h5011>>)

ProgUnknown8 == Bytes(<<\h8018>>)

\* SKP V0 with V0 = 0x10, an index past the 16 keys
ProgSkipKey == Bytes(<<\h6010, \hE09E>>)

\* LD V0,5 then ADD V0,3
ProgAdd == Bytes(<<\h6005, \h7003>>)

\* wait for a key, then start over
ProgWait == Bytes(<<\hF00A, \h1200>>)

\* an endless loop
ProgSpin == Bytes(<<\h1200>>)

\* extended mode, the sprite of digit 0 (I = 0) drawn at (0, 0), back to the
\* standard mode, and again
ProgDraw == Bytes(<<\h00FF, \hD015, \h00FE, \h1200>>)

\* the start of the display programs: the display mode (00FE / 00FF), the
\* plane selection (Fn01), and a random place in V0, V1: x from 59 to 62
\* (the right edge of the standard screen), y one of 4, 12, 20, 28
Prologue(ext, sel) ==
    <<IF ext THEN \h00FF ELSE \h00FE,  \* 200
      \hF001 + 256 * sel,               \* 202: plane sel
      \hC003, \h703B,                   \* 204: V0 = random 0..3, V0 += 59
      \hC118, \h7104>>                  \* 208: V1 = random 0, 8, 16, 24, V1 += 4

\* the sprite of digit 0 drawn there (I = 0), rows down and up again, up once
\* more and down, then both mode switches over what is on the screen
ProgScrollV(ext, sel, n) ==
    Bytes(Prologue(ext, sel) \o
          <<\hD015,                     \* 20C: DRW V0,V1,5
            \h00C0 + n, \h00D0 + n,     \* 20E: scroll down n, up n
            \h00D0 + n, \h00C0 + n,     \* 212: scroll up n, down n
            \h00FF, \h00FE>>)           \* 216: extended, standard

\* the same sprite, then scroll left, right, right, left
ProgScrollH(ext, sel) ==
    Bytes(Prologue(ext, sel) \o
          <<\hD015,                     \* 20C: DRW V0,V1,5
            \h00FC, \h00FB,             \* 20E: scroll left, right
            \h00FB, \h00FC>>)           \* 212: scroll right, left

\* a sprite of n rows (16 x 16 for n = 0) drawn there, then drawn twice 0 to 3
\* pixels further right
ProgDrawTwice(ext, sel, n) ==
    Bytes(Prologue(ext, sel) \o
          <<\hD010 + n,                 \* 20C: DRW V0,V1,n
            \hC203, \h8024,             \* 20E: V2 = random 0..3, V0 += V2
            \hD010 + n, \hD010 + n>>)   \* 212: DRW V0,V1,n twice

\* a 16 x 16 sprite drawn twice at x = 250, where x + 8 passes 255
ProgDrawFar == Bytes(<<\h60FA, \hD010, \hD010>>)

\* V0, V1 and VF random, then the word w: one of the 8xy. instructions
ProgAddXY(w) == Bytes(<<\hC0C1, \hC1C1, \hCFC1, w>>)

\* the ADD words: distinct registers, x = y, y = F, x = F, x = y = F
AddWords == {\h8014, \h8004, \h80F4, \h8F04, \h8FF4}

\* SUB and SUBN for the same pairs of registers
SubWords == {\h8015, \h8005, \h80F5, \h8F05, \h8FF5,
             \h8017, \h8007, \h80F7, \h8F07, \h8FF7}

\* SHR and SHL for the same pairs of registers
ShiftWords == {\h8016, \h8006, \h80F6, \h8F06, \h8FF6,
               \h801E, \h800E, \h80FE, \h8F0E, \h8FFE}

\* V0 random, V2, V3 and VF set apart from it, then the jump w (Bnnn)
ProgJumpV0(w) == Bytes(<<\hC0C1, \h6205, \h6306, \h6F07, w>>)

\* JP V0,addr with the register nibble 0, 2, 3 and F
JumpWords == {\hB010, \hB210, \hB310, \hBF10}

\* I at the program itself, V1 random, V2 = 5, V3 = 6, then the word w
\* (5xy2 or 5xy3)
ProgRange(w) == Bytes(<<\hA200, \hC1C1, \h6205, \h6306, w>>)

\* save and load of V1..V3, V3..V1, V2..V1 and V2..V2
RangeWords == {\h5132, \h5312, \h5212, \h5222, \h5133, \h5313, \h5213, \h5223}

\* LD I,NNNN with the literal w, then LD V1,1
ProgLongI(w) == Bytes(<<\hF000, w, \h6101>>)

\* literals: the word of a jump, of no instruction, and all ones
LongWords == {\h1234, \h0000, \hFFFF}

\* a program that fills the memory from 0x200 to its end, and one that is a
\* byte longer
ProgFull == [k \in 1..(MEMSIZE - 512) |-> IF k = MEMSIZE - 512 THEN 255 ELSE 0]

ProgTooLong == [k \in 1..(MEMSIZE - 511) |-> 0]

\* the plane selection Fn01 for an n past 3, then the sprite of digit 0
ProgSelect(n) == Bytes(<<\hF001 + 256 * n, \hD015>>)

\* V0 = 0x11, V1 = 0x22, V0..Vx saved (Fx75), V0 and V1 changed, V0..Vx
\* restored (Fx85)
ProgRepl(x) == Bytes(<<\h6011, \h6122, \hF075 + 256 * x,
                       \h6033, \h6144, \hF085 + 256 * x>>)

\* the registers named by the save and restore words
ReplRegisters == {0, 1, 7, 8, 15}

\* DT = v, then two reads of DT, into V1 and into V2
ProgDelay(v) == Bytes(<<\h6000 + v, \hF015, \hF107, \hF207>>)

\* the pattern buffer loaded from memory at I = 0 (the sprite bytes of the
\* digits 0 to 3), ST = v, then ST = 0
ProgSound(v) == Bytes(<<\hF002, \h6000 + v, \hF018, \h6100, \hF118>>)

\* the values the timer programs set
TimerValues == {0, 1, 60, 255}

ClockPrograms == {ProgDelay(v) : v \in TimerValues} \cup {ProgSound(v) : v \in TimerValues}

RomPrograms ==
    {ProgScrollV(ext, sel, n) : ext \in BOOLEAN, sel \in 1..3, n \in 0..15}
    \cup {ProgScrollH(ext, sel) : ext \in BOOLEAN, sel \in 1..3}
    \cup {ProgDrawTwice(ext, sel, n) : ext \in BOOLEAN, sel \in 1..3, n \in {0, 5}}
    \cup {ProgDrawFar}
    \cup {ProgAddXY(w) : w \in AddWords \cup SubWords \cup ShiftWords}
    \cup {ProgJumpV0(w) : w \in JumpWords}
    \cup {ProgRange(w) : w \in RangeWords}
    \cup {ProgLongI(w) : w \in LongWords}
    \cup {ProgFull, ProgTooLong, ProgAdd}
    \cup {ProgSelect(n) : n \in {4, 15}}
    \cup {ProgRepl(x) : x \in ReplRegisters}

CpuPrograms == {ProgSkip, ProgSkipKey, ProgCall, ProgUnknown0, ProgUnknown5,
                ProgUnknown8, ProgAdd, ProgWait, ProgDelay(1), ProgDelay(2)}

\* the sprite of digit 0 drawn at (0, 0), the screen cleared, scrolled down by
\* one row and scrolled left
ProgErase == Bytes(<<\hD015, \h00E0, \h00C1, \h00FC>>)

EnginePrograms == {ProgSpin, ProgWait, ProgAdd, ProgDraw, ProgErase}

(***************************************************************************)
(* Channels: std::sync::mpsc::sync_channel(1).  buf holds at most one      *)
(* message; tx / rx tell whether the sender / the receiver still exists.   *)
(***************************************************************************)
chan_new == [buf |-> <<>>, tx |-> TRUE, rx |-> TRUE]

\* SyncSender::try_send: what it returns, and the channel afterwards
try_send_result(ch) ==
    IF ~ch.rx THEN "disconnected" ELSE IF ch.buf # <<>> THEN "full" ELSE "ok"

\* a try_send that replaces what the slot holds
try_sent_overwrite(ch, msg) == IF ch.rx THEN [ch EXCEPT !.buf = <<msg>>] ELSE ch

try_sent(ch, msg) ==
    IF try_send_result(ch) = "ok" THEN [ch EXCEPT !.buf = <<msg>>] ELSE ch

\* a send that never waits
send_ready_never_waits(ch) == TRUE

\* SyncSender::send waits while the slot is full and the receiver exists
send_ready(ch) == ch.buf = <<>> \/ ~ch.rx

send_result(ch) == IF ~ch.rx THEN "disconnected" ELSE "ok"

sent(ch, msg) == IF send_result(ch) = "ok" THEN [ch EXCEPT !.buf = <<msg>>] ELSE ch

\* Receiver::try_recv: a buffered message is returned even after the sender
\* has gone
try_recv_result(ch) ==
    IF ch.buf # <<>> THEN "ok" ELSE IF ~ch.tx THEN "disconnected" ELSE "empty"

\* Receiver::recv waits while the slot is empty and the sender exists
recv_ready(ch) == ch.buf # <<>> \/ ~ch.tx

received(ch) == [ch EXCEPT !.buf = <<>>]

drop_tx(ch) == [ch EXCEPT !.tx = FALSE]

\* dropping the receiver discards what is buffered
drop_rx(ch) == [ch EXCEPT !.rx = FALSE, !.buf = <<>>]

\* the latest call of tick: how many calls there were, pc and sp on entry, the
\* word fetched, how the call ended, what it played, pc, sp, word and
\* ending of the call before it, for each key how often Fx0A has stored its
\* index since the key was last Up, and the display and the registers as
\* they were on entry; before the first call res tells how Cpu::new ended,
\* and code is the program it was given (recorded for a Cpu that runs a ROM)
NoLast == [n |-> 0, pc |-> 0, sp |-> 0, instr |-> 0, res |-> "none", played |-> <<>>,
           before |-> [pc |-> 0, sp |-> 0, instr |-> 0, res |-> "none"],
           reports |-> [k \in 0..15 |-> 0],
           display |-> display_new(HEIGHT, WIDTH), v |-> [k \in 0..15 |-> 0],
           code |-> <<>>]

\* what has crossed the channels so far: notifications and payloads the
\* engine sent and the frontend received, notifications dropped on a full
\* slot, drains of the key mailbox, the latest
\* snapshot pushed (accepted or not), the first one pushed since the last
\* drain, at the last drain: the snapshot taken and those two, where the
\* cpu thread stood when the frontend dropped its channel ends, the display
\* as it was at the end of each tick of the cpu thread, and the number of the
\* tick before the latest payload sent and before the latest payload received
NoObs == [notif_sent |-> 0, pay_sent |-> 0, notif_recv |-> 0, pay_recv |-> 0,
          notif_dropped |-> 0, drains |-> 0,
          last_push |-> <<>>, first_push |-> <<>>,
          drained |-> <<>>, last_at_drain |-> <<>>, first_at_drain |-> <<>>,
          eng_at_drop |-> "none",
          shown |-> <<>>, sent_tick |-> 0, recv_tick |-> 0]

\* Stage::new
NoStage == [cpu_keys |-> AllUp, frame |-> <<>>, height |-> HEIGHT, width |-> WIDTH]

\* the threads and channels as Emulator::run creates them
InitThreads ==
    /\ eng = "start_audio"
    /\ instructions_done = 0
    /\ delay = "none"
    /\ perf_cpu = 0
    /\ keys_ch = chan_new
    /\ disp_ch = chan_new
    /\ notify_ch = chan_new
    /\ front = "idle"
    /\ stage = NoStage
    /\ obs = NoObs

threadVars == <<skip_frames, eng, instructions_done, delay, perf_cpu, keys_ch,
                disp_ch, notify_ch, front, stage, obs>>

(***************************************************************************)
(* A Cpu driven directly: Cpu::new, then calls of tick, with the keyboard  *)
(* written and the audio started from outside.                             *)
(***************************************************************************)
InitCpu ==
    /\ \E code \in CpuPrograms : cpu = cpu_new(code, 0)
    /\ overflow_checks \in BOOLEAN
    /\ now = 0
    /\ last = NoLast
    /\ skip_frames = FALSE
    /\ InitThreads

\* the bytes rand::random::<u8>() can give, as far as the instruction (Cxkk,
\* rnd & kk) uses them: one byte for each value of rnd & kk
RndBytes(c) ==
    IF read_in_range(c.pc) /\ Nibble(next_instruction(c), 0) = 12
    THEN {r \in 0..255 : BitAnd(r, next_instruction(c) % 256) = r}
    ELSE {0}

\* the word is Fx0A, the wait for a key
wait_key_opcode(instr) ==
    Nibble(instr, 0) = 15 /\ Nibble(instr, 2) = 0 /\ Nibble(instr, 3) = 10

\* the tick that returned r executed Fx0A and went on to the next instruction
key_reported(c, r) == r.res = "ok" /\ wait_key_opcode(r.instr) /\ r.cpu.pc # c.pc

\* the counts of reports after the tick that returned r: Fx0A has stored the
\* index of the reported key in Vx
reported(reports, c, r) ==
    IF key_reported(c, r)
    THEN [reports EXCEPT ![r.cpu.v[Nibble(r.instr, 1)]] = @ + 1]
    ELSE reports

\* the counts of reports once the keys are keys: a key that is Up starts anew
released(reports, keys) == [k \in 0..15 |-> IF keys[k] = "Up" THEN 0 ELSE reports[k]]

observe(c, n, r) ==
    [n |-> n + 1, pc |-> c.pc, sp |-> c.sp, instr |-> r.instr, res |-> r.res,
     played |-> r.played,
     before |-> [pc |-> last.pc, sp |-> last.sp, instr |-> last.instr,
                 res |-> last.res],
     reports |-> reported(last.reports, c, r),
     display |-> c.display, v |-> c.v, code |-> last.code]

\* the Cpu and the record of the call after a tick that returned r
CpuTicked(r) ==
    /\ cpu' = r.cpu
    /\ last' = observe(cpu, last.n, r)

CpuTick ==
    /\ last.res # "panic"
    /\ cpu.clock_steps < MaxSteps
    /\ \E rnd \in RndBytes(cpu) : CpuTicked(tick(cpu, rnd, now, overflow_checks))
    /\ UNCHANGED <<overflow_checks, now, threadVars>>

\* the caller writes cpu.keyboard.keys
CpuSetKeys ==
    /\ last.res # "panic"
    /\ \E k \in DirectKeys :
          cpu' = [cpu EXCEPT !.keyboard.keys[k] =
                     IF cpu.keyboard.keys[k] = "Up" THEN "Down" ELSE "Up"]
    /\ last' = [last EXCEPT !.reports = released(@, cpu'.keyboard.keys)]
    /\ UNCHANGED <<overflow_checks, now, threadVars>>

\* Cpu::start_audio succeeded
CpuStartAudio ==
    /\ last.res # "panic"
    /\ ~cpu.sound.audio_stream
    /\ cpu' = [cpu EXCEPT !.sound.audio_stream = TRUE]
    /\ UNCHANGED <<overflow_checks, now, last, threadVars>>

\* 10 ms pass
TimePasses ==
    /\ now + 10 <= MaxTime
    /\ now' = now + 10
    /\ UNCHANGED <<cpu, overflow_checks, last, threadVars>>

NextCpu == CpuTick \/ CpuSetKeys \/ CpuStartAudio \/ TimePasses

SpecCpu == InitCpu /\ [][NextCpu]_vars

(***************************************************************************)
(* A Cpu that waits for keys: Cpu::new with the program that executes Fx0A *)
(* again and again, ticks called by a loop that never stops calling (the   *)
(* cpu thread's loop), and the key state written between the ticks.        *)
(***************************************************************************)
InitWait ==
    /\ cpu = cpu_new(ProgWait, 0)
    /\ overflow_checks \in BOOLEAN
    /\ now = 0
    /\ last = NoLast
    /\ skip_frames = FALSE
    /\ InitThreads

WaitTick ==
    /\ last.res # "panic"
    /\ cpu.clock_steps < MaxWaitSteps
    /\ \E rnd \in RndBytes(cpu) : CpuTicked(tick(cpu, rnd, now, overflow_checks))
    /\ UNCHANGED <<overflow_checks, now, threadVars>>

\* cpu.keyboard.keys is written: one key goes Down or Up
WaitSetKeys ==
    /\ \E k \in DirectKeys :
          cpu' = [cpu EXCEPT !.keyboard.keys[k] =
                     IF cpu.keyboard.keys[k] = "Up" THEN "Down" ELSE "Up"]
    /\ last' = [last EXCEPT !.reports = released(@, cpu'.keyboard.keys)]
    /\ UNCHANGED <<overflow_checks, now, threadVars>>

NextWait == WaitTick \/ WaitSetKeys

SpecWait == InitWait /\ [][NextWait]_vars /\ WF_vars(WaitTick)

(***************************************************************************)
(* A Cpu that runs a timer ROM while time passes: Cpu::new and start_audio *)
(* as the cpu thread does them, then calls of tick.                        *)
(***************************************************************************)
InitClock ==
    /\ \E code \in ClockPrograms :
          cpu = [cpu_new(code, 0) EXCEPT !.sound.audio_stream = TRUE]
    /\ overflow_checks \in BOOLEAN
    /\ now = 0
    /\ last = NoLast
    /\ skip_frames = FALSE
    /\ InitThreads

ClockTick ==
    /\ last.res # "panic"
    /\ cpu.clock_steps < MaxClockSteps
    /\ \E rnd \in RndBytes(cpu) : CpuTicked(tick(cpu, rnd, now, overflow_checks))
    /\ UNCHANGED <<overflow_checks, now, threadVars>>

\* 50 ms pass
ClockPasses ==
    /\ now + 50 <= MaxClock
    /\ now' = now + 50
    /\ UNCHANGED <<cpu, overflow_checks, last, threadVars>>

NextClock == ClockTick \/ ClockPasses

SpecClock == InitClock /\ [][NextClock]_vars

(***************************************************************************)
(* A Cpu that runs a ROM from Cpu::new on, by calls of tick alone.         *)
(***************************************************************************)
InitRom ==
    /\ \E code \in RomPrograms :
          /\ cpu = cpu_new_result(code, 0).cpu
          /\ last = [NoLast EXCEPT !.res = cpu_new_result(code, 0).res, !.code = code]
    /\ overflow_checks \in BOOLEAN
    /\ now = 0
    /\ skip_frames = FALSE
    /\ InitThreads

RomTick ==
    /\ last.res # "panic"
    /\ cpu.clock_steps < MaxRomSteps
    /\ \E rnd \in RndBytes(cpu) : CpuTicked(tick(cpu, rnd, now, overflow_checks))
    /\ UNCHANGED <<overflow_checks, now, threadVars>>

SpecRom == InitRom /\ [][RomTick]_vars

(***************************************************************************)
(* Claims about a Cpu driven directly (SpecCpu).                           *)
(***************************************************************************)
\* the conditional skips: 3xkk 4xkk 5xy0 9xy0 Ex9E ExA1
skip_opcode(instr) ==
    \/ Nibble(instr, 0) \in {3, 4, 9}
    \/ Nibble(instr, 0) = 5 /\ Nibble(instr, 3) = 0
    \/ Nibble(instr, 0) = 14 /\ Nibble(instr, 2) = 9 /\ Nibble(instr, 3) = 14
    \/ Nibble(instr, 0) = 14 /\ Nibble(instr, 2) = 10 /\ Nibble(instr, 3) = 1

\* key k of the keypad is held down; there is no key past 15
key_down(c, k) == k \in 0..15 /\ c.keyboard.keys[k] = "Down"

\* the condition the skip opcode instr tests in the Cpu c
skip_condition(c, instr) ==
    CASE Nibble(instr, 0) = 3 -> c.v[Nibble(instr, 1)] = instr % 256
      [] Nibble(instr, 0) = 4 -> c.v[Nibble(instr, 1)] # instr % 256
      [] Nibble(instr, 0) = 5 -> c.v[Nibble(instr, 1)] = c.v[Nibble(instr, 2)]
      [] Nibble(instr, 0) = 9 -> c.v[Nibble(instr, 1)] # c.v[Nibble(instr, 2)]
      [] Nibble(instr, 0) = 14 /\ Nibble(instr, 2) = 9 ->
             key_down(c, c.v[Nibble(instr, 1)])
      [] OTHER -> ~key_down(c, c.v[Nibble(instr, 1)])

\* where the claim puts PC after the skip opcode at c.pc
skip_target(c) ==
    IF ~skip_condition(c, next_instruction(c)) THEN c.pc + 2
    ELSE IF read_memory(c.memory, c.pc + 2) = 61440 THEN c.pc + 6
    ELSE c.pc + 4

\* C1: every tick that executes a conditional skip (3xkk, 4xkk, 5xy0, 9xy0,
\* Ex9E, ExA1) at address P leaves PC = P+2 when the condition is false,
\* P+4 when it is true and the word at P+2 is not 0xF000, and P+6 when it is
\* true and the word at P+2 is 0xF000.
C1SkipDistance ==
    [][(last'.n = last.n + 1 /\ read_in_range(cpu.pc)
            /\ skip_opcode(next_instruction(cpu)))
        => cpu'.pc = skip_target(cpu)]_vars

\* the word is CALL nnn and the word at nnn is RET (00EE)
call_of_ret(c, instr) ==
    Nibble(instr, 0) = 2 /\ read_memory(c.memory, instr % 4096) = 238

\* C2: a CALL nnn executed at address A with stack pointer S, the word at nnn
\* being RET, completes, and after the RET that follows it PC = A+2 and
\* SP = S.
C2CallReturn ==
    /\ (last.res # "none" /\ call_of_ret(cpu, last.instr)) => last.res = "ok"
    /\ (last.res = "ok" /\ last.instr = 238 /\ last.before.res = "ok"
            /\ call_of_ret(cpu, last.before.instr))
        => (cpu.pc = last.before.pc + 2 /\ cpu.sp = last.before.sp)

\* C3: a tick that fetches a word matching no opcode returns an error value
\* to its caller: it does not panic, and PC stays at the word.
C3UnknownOpcodeError ==
    (last.res # "none" /\ ~known_opcode(last.instr))
        => (last.res = "err" /\ cpu.pc = last.pc)

(***************************************************************************)
(* The cpu thread of Emulator::run (emulator.rs 73-159).  eng is where the *)
(* thread stands: before cpu.start_audio(), before cpu.tick(), before the  *)
(* notification send, before the payload send, before rx_keys.try_recv();  *)
(* or how it ended.                                                        *)
(***************************************************************************)
reduce_flicker == TRUE

\* if always_update || cpu.display.updated
wants_display(c) == reduce_flicker \/ c.display.updated

\* the message sent on tx_disp: (cpu.display.to_buf(), height, width).  The
\* Vec<u32> is carried as the fields of the display to_buf reads at the send;
\* frame_buf gives its entries
\* a payload that leaves out what the planes hold
frame_without_planes(d) ==
    [planes |-> <<plane_new(d.height, d.width), plane_new(d.height, d.width)>>,
     colors |-> d.colors, height |-> d.height, width |-> d.width]

frame(d) == [planes |-> d.planes, colors |-> d.colors, height |-> d.height,
             width |-> d.width]

frame_buf(f) == to_buf(f)

\* the closure ends (return, break or unwinding): its channel ends are dropped
EngLeaves(how) ==
    /\ eng' = how
    /\ keys_ch' = drop_rx(keys_ch)
    /\ disp_ch' = drop_tx(disp_ch)
    /\ notify_ch' = drop_tx(notify_ch)

\* cpu.start_audio()?: Sound::start succeeds, returns an error, or panics
EngStartAudio ==
    /\ eng = "start_audio"
    /\ \E outcome \in {"ok", "err", "panic"} :
          IF outcome = "ok"
          THEN /\ cpu' = [cpu EXCEPT !.sound.audio_stream = TRUE]
               /\ eng' = "tick"
               /\ UNCHANGED <<keys_ch, disp_ch, notify_ch>>
          ELSE /\ cpu' = cpu
               /\ EngLeaves(IF outcome = "err" THEN "returned_err" ELSE "panicked")
    /\ UNCHANGED <<overflow_checks, now, last, skip_frames, instructions_done,
                   delay, perf_cpu, front, stage, obs>>

\* let instructions_done = cpu.tick()?, r being what tick gave
EngTicked(r) ==
    /\ cpu' = r.cpu
    /\ last' = observe(cpu, last.n, r)
    /\ obs' = [obs EXCEPT !.shown = Append(@, r.cpu.display)]
    /\ IF r.res = "ok"
       THEN /\ instructions_done' = r.instr
            /\ eng' = IF wants_display(r.cpu) THEN "notify" ELSE "keys"
            /\ UNCHANGED <<keys_ch, disp_ch, notify_ch>>
       ELSE /\ instructions_done' = instructions_done
            /\ EngLeaves(IF r.res = "err" THEN "returned_err" ELSE "panicked")

EngTick ==
    /\ eng = "tick"
    /\ cpu.clock_steps < MaxTicks
    /\ \E rnd \in RndBytes(cpu) : EngTicked(tick(cpu, rnd, now, overflow_checks))
    /\ UNCHANGED <<overflow_checks, now, skip_frames, delay, perf_cpu, front,
                   stage>>

\* a send_display that sends the payload although the notification was dropped
after_notify_resend(res) ==
    CASE res \in {"ok", "full"} -> "payload"
      [] OTHER -> "returned_ok"

\* where send_display goes after the notification send returned res
after_notify(res) ==
    CASE res = "ok" -> "payload"
      [] res = "full" -> "keys"
      [] OTHER -> "returned_ok"

\* the notification send: try_send when skipping frames, send otherwise
notify_ready(skip, ch) == IF skip THEN TRUE ELSE send_ready(ch)

notify_result(skip, ch) == IF skip THEN try_send_result(ch) ELSE send_result(ch)

notify_sent(skip, ch) == IF skip THEN try_sent(ch, "unit") ELSE sent(ch, "unit")

\* send_display up to the payload send; a send_display that ends here is
\* followed by cpu.display.updated = false and, on an error, by the break
EngNotified(res) ==
    /\ obs' = [obs EXCEPT
                 !.notif_sent = IF res = "ok" THEN @ + 1 ELSE @,
                 !.notif_dropped = IF res = "full" THEN @ + 1 ELSE @]
    /\ cpu' = IF after_notify(res) = "payload" THEN cpu
              ELSE [cpu EXCEPT !.display.updated = FALSE]
    /\ IF after_notify(res) = "returned_ok"
       THEN EngLeaves("returned_ok")
       ELSE /\ eng' = after_notify(res)
            /\ notify_ch' = notify_sent(skip_frames, notify_ch)
            /\ UNCHANGED <<keys_ch, disp_ch>>

EngNotify ==
    /\ eng = "notify"
    /\ notify_ready(skip_frames, notify_ch)
    /\ EngNotified(notify_result(skip_frames, notify_ch))
    /\ UNCHANGED <<overflow_checks, now, last, skip_frames, instructions_done,
                   delay, perf_cpu, front, stage>>

\* tx_disp.send((to_buf, height, width)), then cpu.display.updated = false
EngPayload ==
    /\ eng = "payload"
    /\ send_ready(disp_ch)
    /\ cpu' = [cpu EXCEPT !.display.updated = FALSE]
    /\ IF send_result(disp_ch) = "ok"
       THEN /\ disp_ch' = sent(disp_ch, frame(cpu.display))
            /\ obs' = [obs EXCEPT !.pay_sent = @ + 1, !.sent_tick = last.n]
            /\ eng' = "keys"
            /\ UNCHANGED <<keys_ch, notify_ch>>
       ELSE /\ obs' = obs
            /\ EngLeaves("returned_ok")
    /\ UNCHANGED <<overflow_checks, now, last, skip_frames, instructions_done,
                   delay, perf_cpu, front, stage>>

\* a receive that releases every key when the slot is empty
keys_after_reset(res, ch, keys) == IF res = "ok" THEN ch.buf[1] ELSE AllUp

\* the keys the engine has after rx_keys.try_recv() returned res
keys_after(res, ch, keys) == IF res = "ok" THEN ch.buf[1] ELSE keys

\* rx_keys.try_recv(), then perf_cpu.wait() or the 1 ms sleep
EngKeys ==
    /\ eng = "keys"
    /\ cpu' = [cpu EXCEPT !.keyboard.keys =
                  keys_after(try_recv_result(keys_ch), keys_ch, cpu.keyboard.keys)]
    /\ IF try_recv_result(keys_ch) = "disconnected"
       THEN /\ EngLeaves("returned_ok")
            /\ UNCHANGED <<delay, perf_cpu, obs>>
       ELSE /\ eng' = "tick"
            /\ keys_ch' = IF try_recv_result(keys_ch) = "ok" THEN received(keys_ch)
                          ELSE keys_ch
            /\ obs' = IF try_recv_result(keys_ch) = "ok"
                      THEN [obs EXCEPT !.drains = @ + 1,
                                       !.drained = keys_ch.buf,
                                       !.last_at_drain = obs.last_push,
                                       !.first_at_drain = obs.first_push,
                                       !.first_push = <<>>]
                      ELSE obs
            /\ delay' = IF instructions_done > 0 THEN "wait" ELSE "sleep"
            /\ perf_cpu' = IF instructions_done > 0 THEN perf_cpu + 1 ELSE perf_cpu
            /\ UNCHANGED <<disp_ch, notify_ch>>
    /\ last' = [last EXCEPT !.reports = released(@, cpu'.keyboard.keys)]
    /\ UNCHANGED <<overflow_checks, now, skip_frames, instructions_done,
                   front, stage>>

EngNext == EngStartAudio \/ EngTick \/ EngNotify \/ EngPayload \/ EngKeys

(***************************************************************************)
(* The frontend: the Stage event handler (emulator.rs 259-404).  front is  *)
(* where it stands: between two callbacks, inside update before            *)
(* rx_disp_notify.try_recv(), inside update before rx_disp.recv(), after   *)
(* ctx.quit(), or gone with its channel ends.                              *)
(***************************************************************************)
\* key_down_event for the key mapped to index k
FrontKeyDown ==
    /\ front = "idle"
    /\ \E k \in PressedKeys : stage' = [stage EXCEPT !.cpu_keys[k] = "Down"]
    /\ UNCHANGED <<cpu, overflow_checks, now, last, skip_frames, eng,
                   instructions_done, delay, perf_cpu, keys_ch, disp_ch,
                   notify_ch, front, obs>>

\* key_up_event for the key mapped to index k
FrontKeyUp ==
    /\ front = "idle"
    /\ \E k \in PressedKeys : stage' = [stage EXCEPT !.cpu_keys[k] = "Up"]
    /\ UNCHANGED <<cpu, overflow_checks, now, last, skip_frames, eng,
                   instructions_done, delay, perf_cpu, keys_ch, disp_ch,
                   notify_ch, front, obs>>

\* key_up_event for Escape: ctx.quit()
FrontEscape ==
    /\ front = "idle"
    /\ front' = "quitting"
    /\ UNCHANGED <<cpu, overflow_checks, now, last, skip_frames, eng,
                   instructions_done, delay, perf_cpu, keys_ch, disp_ch,
                   notify_ch, stage, obs>>

\* where update goes after tx_keys.try_send returned res
after_push(res) == IF res = "disconnected" THEN "quitting" ELSE "try_notify"

\* update, first part: self.tx_keys.try_send(self.cpu_keys)
FrontPushKeys ==
    /\ front = "idle"
    /\ keys_ch' = try_sent(keys_ch, stage.cpu_keys)
    /\ front' = after_push(try_send_result(keys_ch))
    /\ obs' = [obs EXCEPT !.last_push = <<stage.cpu_keys>>,
                          !.first_push = IF @ = <<>> THEN <<stage.cpu_keys>> ELSE @]
    /\ UNCHANGED <<cpu, overflow_checks, now, last, skip_frames, eng,
                   instructions_done, delay, perf_cpu, disp_ch, notify_ch, stage>>

\* an update that waits for a payload without having got a notification
after_try_notify_waits(res) ==
    CASE res \in {"ok", "empty"} -> "recv_frame"
      [] OTHER -> "quitting"

\* where update goes after rx_disp_notify.try_recv returned res
after_try_notify(res) ==
    CASE res = "ok" -> "recv_frame"
      [] res = "empty" -> "idle"
      [] OTHER -> "quitting"

\* update, second part: self.rx_disp_notify.try_recv()
FrontTryNotify ==
    /\ front = "try_notify"
    /\ front' = after_try_notify(try_recv_result(notify_ch))
    /\ notify_ch' = IF try_recv_result(notify_ch) = "ok" THEN received(notify_ch)
                    ELSE notify_ch
    /\ obs' = [obs EXCEPT !.notif_recv =
                  IF try_recv_result(notify_ch) = "ok" THEN @ + 1 ELSE @]
    /\ UNCHANGED <<cpu, overflow_checks, now, last, skip_frames, eng,
                   instructions_done, delay, perf_cpu, keys_ch, disp_ch, stage>>

\* the bytes update pushes for the pixel val: red, green, blue, 0xFF
rgba_byte(val, j) ==
    CASE j = 0 -> (val \div 65536) % 256
      [] j = 1 -> (val \div 256) % 256
      [] j = 2 -> val % 256
      [] OTHER -> 255

\* self.buffer after the loops over the received frame f: four bytes for
\* display_buf[w + width * h], row by row
rgba(f) ==
    [k \in 1..(4 * f.height * f.width) |->
        rgba_byte(buf_pixel(f, (k - 1) \div 4), (k - 1) % 4)]

\* Stage.buffer: empty until the first frame has been received
stage_buffer(st) == IF st.frame = <<>> THEN <<>> ELSE rgba(st.frame[1])

\* update, third part: self.rx_disp.recv() and the copy into self.buffer
FrontRecvFrame ==
    /\ front = "recv_frame"
    /\ recv_ready(disp_ch)
    /\ IF disp_ch.buf # <<>>
       THEN /\ stage' = [stage EXCEPT !.frame = disp_ch.buf,
                                      !.height = disp_ch.buf[1].height,
                                      !.width = disp_ch.buf[1].width]
            /\ disp_ch' = received(disp_ch)
            /\ obs' = [obs EXCEPT !.pay_recv = @ + 1, !.recv_tick = obs.sent_tick]
            /\ front' = "idle"
       ELSE /\ front' = "quitting"
            /\ UNCHANGED <<stage, disp_ch, obs>>
    /\ UNCHANGED <<cpu, overflow_checks, now, last, skip_frames, eng,
                   instructions_done, delay, perf_cpu, keys_ch, notify_ch>>

\* the event loop ends and the Stage is dropped with its channel ends
FrontDrop ==
    /\ front = "quitting"
    /\ front' = "dropped"
    /\ keys_ch' = drop_tx(keys_ch)
    /\ disp_ch' = drop_rx(disp_ch)
    /\ notify_ch' = drop_rx(notify_ch)
    /\ obs' = [obs EXCEPT !.eng_at_drop = eng]
    /\ UNCHANGED <<cpu, overflow_checks, now, last, skip_frames, eng,
                   instructions_done, delay, perf_cpu, stage>>

FrontNext ==
    FrontKeyDown \/ FrontKeyUp \/ FrontEscape \/ FrontPushKeys \/ FrontTryNotify
        \/ FrontRecvFrame \/ FrontDrop

(***************************************************************************)
(* Emulator::run: the cpu thread and the frontend side by side.            *)
(***************************************************************************)
Init ==
    /\ \E code \in EnginePrograms : cpu = cpu_new(code, 0)
    /\ overflow_checks \in BOOLEAN
    /\ now = 0
    /\ last = NoLast
    /\ skip_frames \in BOOLEAN
    /\ InitThreads

Next == EngNext \/ FrontNext

Spec == Init /\ [][Next]_vars

(***************************************************************************)
(* Claims about the cpu thread and the frontend (Spec).                    *)
(***************************************************************************)
\* the cpu thread stands before a send that cannot complete now
EngWaits == eng \in {"notify", "payload"} /\ ~ENABLED EngNext

\* C4: when skipping frames, neither the notification send nor the payload
\* send of the cpu thread ever has to wait for the frontend.
C4SkipSendsNeverWait == skip_frames => ~EngWaits

\* C5: when skipping frames, as long as the frontend has received nothing the
\* cpu thread never waits in a send, at most one notification and one payload
\* (the first frame) are accepted, and every later notification is dropped.
C5NoDrainNeverBlocks ==
    (skip_frames /\ obs.notif_recv = 0)
        => /\ ~EngWaits
           /\ obs.notif_sent <= 1
           /\ obs.pay_sent <= obs.notif_sent
           /\ (obs.notif_dropped > 0 => obs.pay_sent = 1)

C5Witness ==
    /\ skip_frames /\ obs.notif_recv = 0 /\ front # "dropped"
    /\ last.n = MaxTicks /\ eng = "tick" /\ last.res = "ok"
    /\ obs.pay_sent = 1 /\ obs.notif_dropped = MaxTicks - 1

\* C6: when not skipping frames, the ticks executed never exceed the frame
\* payloads the frontend has received by more than 2.
C6Throttled == ~skip_frames => last.n <= obs.pay_recv + 2

C6Witness ==
    /\ ~skip_frames /\ obs.pay_recv = 1 /\ last.n = 3 /\ EngWaits

\* C7: if the cpu thread was inside its loop when the frontend dropped its
\* channel ends, the thread ends by returning Ok: it neither panics nor
\* returns an error.
C7ExitsOk ==
    (front = "dropped"
        /\ obs.eng_at_drop \in {"tick", "notify", "payload", "keys"}
        /\ eng \in {"returned_ok", "returned_err", "panicked"})
    => eng = "returned_ok"

\* C8: payloads_sent <= notifications_sent <= payloads_sent + 1 and
\* payloads_received <= notifications_received <= payloads_received + 1.
C8NotifyBeforePayload ==
    /\ obs.pay_sent <= obs.notif_sent
    /\ obs.notif_sent <= obs.pay_sent + 1
    /\ obs.pay_recv <= obs.notif_recv
    /\ obs.notif_recv <= obs.pay_recv + 1

C8Witness ==
    /\ obs.pay_recv >= 1
    /\ obs.notif_sent = obs.pay_sent + 1
    /\ obs.notif_recv = obs.pay_recv + 1

\* C9: the push of a key snapshot is always possible; on a full slot it
\* leaves the slot as it was; the cpu thread's receive is always possible,
\* takes at most one snapshot per loop iteration, and leaves the engine's
\* keys as they were when the slot is empty.
C9KeyMailbox ==
    [][/\ (front = "idle") => ENABLED FrontPushKeys
       /\ (front = "idle" /\ front' = "try_notify" /\ keys_ch.buf # <<>>)
            => keys_ch' = keys_ch
       /\ (eng = "keys") => ENABLED EngKeys
       /\ (eng = "keys" /\ eng' = "tick" /\ keys_ch.buf = <<>>)
            => (cpu'.keyboard.keys = cpu.keyboard.keys /\ keys_ch' = keys_ch)
       /\ obs'.drains <= last'.n]_vars

\* the latest push met a full slot holding a different snapshot, which is
\* still there
C9Witness ==
    /\ front = "try_notify"
    /\ keys_ch.buf # <<>>
    /\ obs.last_push # keys_ch.buf
    /\ obs.drains >= 1

\* C10 as stated: the snapshot the cpu thread takes from the mailbox is the
\* latest one the frontend pushed or attempted to push.
C10LatestWins == obs.drains > 0 => obs.drained = obs.last_at_drain

\* C10 amended: the snapshot the cpu thread takes from the mailbox is the
\* first one the frontend pushed since the previous drain; the later ones
\* were discarded.
C10FirstWins == obs.drains > 0 => obs.drained = obs.first_at_drain

C10Witness ==
    /\ obs.drains >= 2
    /\ obs.drained = obs.first_at_drain
    /\ obs.drained # obs.last_at_drain

\* the payload f holds what to_buf gives for the display d
same_picture(f, d) ==
    /\ f.planes = d.planes
    /\ f.colors = d.colors
    /\ f.height = d.height
    /\ f.width = d.width

\* C11: the payload in the slot and the frame the frontend holds are each the
\* whole display as it was at the end of one tick (the tick before the send),
\* the frame has height * width entries for the height and width that came
\* with it, and every frame received comes from a later tick than the frame
\* received before it.
C11FramesWhole ==
    [][/\ (disp_ch'.buf # <<>>)
            => same_picture(disp_ch'.buf[1], obs'.shown[obs'.sent_tick])
       /\ (stage'.frame # <<>>)
            => /\ same_picture(stage'.frame[1], obs'.shown[obs'.recv_tick])
               /\ buf_len(stage'.frame[1]) = stage'.height * stage'.width
       /\ (obs'.pay_recv # obs.pay_recv) => obs'.recv_tick > obs.recv_tick]_vars

\* the frontend holds the extended-mode frame with the sprite of tick 2 while
\* the engine's display has been reset by tick 3
C11Witness ==
    /\ stage.frame # <<>>
    /\ stage.frame[1].planes[1].cells # Empty
    /\ stage.height = 2 * HEIGHT
    /\ obs.recv_tick = 2
    /\ last.n >= 3
    /\ cpu.display.height = HEIGHT

\* C12: at the end of a loop iteration whose tick executed Fx0A without
\* advancing PC the cpu thread has taken the 1 ms sleep and not called
\* perf_cpu.wait(); at the end of every other iteration it has called
\* perf_cpu.wait() and not slept.
C12DelayBranch ==
    (eng = "tick" /\ delay # "none" /\ last.res = "ok")
        => IF wait_key_opcode(last.instr) /\ cpu.pc = last.pc
           THEN delay = "sleep"
           ELSE delay = "wait"

\* C13: no key has its index stored by Fx0A more than once while it stays
\* Down; prev_keys changes only in a tick that executes Fx0A; and after every
\* tick that executes Fx0A prev_keys equals the keys the tick sampled.
C13HeldKeyOnce ==
    [][/\ \A k \in 0..15 : last'.reports[k] <= 1
       /\ (cpu'.keyboard.prev_keys # cpu.keyboard.prev_keys)
            => (last'.n = last.n + 1 /\ wait_key_opcode(last'.instr))
       /\ (last'.n = last.n + 1 /\ last'.res = "ok" /\ wait_key_opcode(last'.instr))
            => cpu'.keyboard.prev_keys = cpu.keyboard.keys]_vars

\* keys 1 and 0 are both held and each has been reported once, and the latest
\* tick executed Fx0A again without reporting either
C13Witness ==
    /\ cpu.keyboard.keys[0] = "Down" /\ cpu.keyboard.keys[1] = "Down"
    /\ last.reports[0] = 1 /\ last.reports[1] = 1
    /\ last.res = "ok" /\ wait_key_opcode(last.instr) /\ cpu.pc = last.pc

(***************************************************************************)
(* Claims about a Cpu running a ROM (SpecRom).                             *)
(***************************************************************************)
\* the step is a call of tick that returned Ok
tick_done == last'.n = last.n + 1 /\ last'.res = "ok"

\* the byte of plane p that to_buf reads for the pixels 8b .. 8b+7 of row r
row_byte(p, r, b) == Get(p.cells, r * (p.width \div 8) + b)

\* plane q shows plane p moved up by n rows, the bottom n rows zero
scrolled_up(p, q, n) ==
    \A r \in 0..(p.height - 1) : \A b \in 0..((p.width \div 8) - 1) :
        row_byte(q, r, b) = IF r + n < p.height THEN row_byte(p, r + n, b) ELSE 0

\* plane q shows plane p moved down by n rows, the top n rows zero
scrolled_down(p, q, n) ==
    \A r \in 0..(p.height - 1) : \A b \in 0..((p.width \div 8) - 1) :
        row_byte(q, r, b) = IF r >= n THEN row_byte(p, r - n, b) ELSE 0

\* the words 00CN and 00DN
scroll_down_opcode(instr) == instr \div 16 = 12

scroll_up_opcode(instr) == instr \div 16 = 13

\* C14: a tick that executes 00DN leaves every active plane, as to_buf reads
\* it, moved up by N rows with its bottom N rows zero; a tick that executes
\* 00CN leaves it moved down by N rows with its top N rows zero.
C14ScrollRows ==
    [][tick_done =>
        \A i \in 1..2 : plane_active(cpu.display, i - 1) =>
            /\ scroll_up_opcode(last'.instr)
                 => scrolled_up(cpu.display.planes[i], cpu'.display.planes[i],
                                last'.instr % 16)
            /\ scroll_down_opcode(last'.instr)
                 => scrolled_down(cpu.display.planes[i], cpu'.display.planes[i],
                                  last'.instr % 16)]_vars

\* plane q shows every row of plane p moved right by 4 pixels: in each byte
\* the former high nibble below the low nibble of the byte to its left in the
\* same row, nothing to the left of the first byte
scrolled_right(p, q) ==
    \A r \in 0..(p.height - 1) : \A b \in 0..((p.width \div 8) - 1) :
        row_byte(q, r, b) = Shr(row_byte(p, r, b), 4)
            + (IF b > 0 THEN (row_byte(p, r, b - 1) % 16) * 16 ELSE 0)

\* plane q shows every row of plane p moved left by 4 pixels
scrolled_left(p, q) ==
    \A r \in 0..(p.height - 1) : \A b \in 0..((p.width \div 8) - 1) :
        row_byte(q, r, b) = ((row_byte(p, r, b) * 16) % 256)
            + (IF b + 1 < p.width \div 8 THEN Shr(row_byte(p, r, b + 1), 4) ELSE 0)

\* the words 00FB and 00FC
scroll_right_opcode(instr) == instr = 251

scroll_left_opcode(instr) == instr = 252

\* C15: a tick that executes 00FB leaves every row of every active plane
\* moved right by 4 pixels with its leftmost 4 pixels zero; a tick that
\* executes 00FC leaves every row moved left by 4 pixels with its rightmost 4
\* pixels zero; no pixel passes from one row into another.
C15ScrollColumns ==
    [][tick_done =>
        \A i \in 1..2 : plane_active(cpu.display, i - 1) =>
            /\ scroll_right_opcode(last'.instr)
                 => scrolled_right(cpu.display.planes[i], cpu'.display.planes[i])
            /\ scroll_left_opcode(last'.instr)
                 => scrolled_left(cpu.display.planes[i], cpu'.display.planes[i])]_vars

\* plane q shows rows 0 .. height-1-n of plane p as they were and zeros in
\* the n rows below
rows_kept(p, q, n) ==
    \A r \in 0..(p.height - 1) : \A b \in 0..((p.width \div 8) - 1) :
        row_byte(q, r, b) = IF r + n < p.height THEN row_byte(p, r, b) ELSE 0

\* plane q shows the columns 4 .. width-1 of every row of plane p as they
\* were and zeros in the columns 0 .. 3
columns_kept(p, q) ==
    \A r \in 0..(p.height - 1) : \A b \in 0..((p.width \div 8) - 1) :
        row_byte(q, r, b) = IF b = 0 THEN row_byte(p, r, 0) % 16 ELSE row_byte(p, r, b)

\* C16: a tick that executes 00DN right after a tick that executed 00CN with
\* the same N leaves every active plane with rows 0 .. height-1-N as they were
\* before the two ticks and the N rows below zero; a tick that executes 00FB
\* right after a tick that executed 00FC leaves every row with columns
\* 4 .. width-1 as they were before the two ticks and columns 0 .. 3 zero.
C16ScrollBack ==
    [][(tick_done /\ last.res = "ok") =>
        \A i \in 1..2 : plane_active(cpu.display, i - 1) =>
            /\ (scroll_down_opcode(last.instr) /\ scroll_up_opcode(last'.instr)
                    /\ last.instr % 16 = last'.instr % 16)
                 => rows_kept(last.display.planes[i], cpu'.display.planes[i],
                              last.instr % 16)
            /\ (scroll_left_opcode(last.instr) /\ scroll_right_opcode(last'.instr))
                 => columns_kept(last.display.planes[i], cpu'.display.planes[i])]_vars

\* the word is Dxyn
drw_opcode(instr) == Nibble(instr, 0) = 13

\* some pixel that is set in plane p is not set in plane q
pixel_lost(p, q) ==
    \E a \in DOMAIN p.cells : BitAnd(p.cells[a], 255 - Get(q.cells, a)) # 0

\* some pixel set in an active plane of display d is not set in display e
pixel_cleared(d, e) ==
    \E i \in 1..2 : plane_active(d, i - 1) /\ pixel_lost(d.planes[i], e.planes[i])

\* C17: a tick that executes DRW and returns leaves V[0xF] = 1 if in some
\* active plane a pixel that was set before the draw is cleared by it, and
\* V[0xF] = 0 otherwise.
C17Collision ==
    [][(tick_done /\ drw_opcode(last'.instr))
        => cpu'.v[15] = IF pixel_cleared(cpu.display, cpu'.display) THEN 1 ELSE 0]_vars

\* a draw that set pixels and cleared others, and one before it that only
\* set pixels and left the flag 0
C17Witness ==
    /\ last.res = "ok" /\ drw_opcode(last.instr)
    /\ cpu.v[15] = 1
    /\ pixel_cleared(last.display, cpu.display)
    /\ pixel_cleared(cpu.display, last.display)
    /\ last.v[15] = 0
    /\ last.display.planes[1].cells # Empty

\* C18: a tick that executes DRW right after a tick that executed the same
\* DRW word with the same Vx, Vy and active planes leaves every plane as it
\* was before the two ticks, and V[0xF] = 1 exactly when the first of the two
\* draws set at least one pixel.
C18DrawTwice ==
    [][(tick_done /\ last.res = "ok" /\ drw_opcode(last.instr)
            /\ last'.instr = last.instr
            /\ cpu.v[Nibble(last.instr, 1)] = last.v[Nibble(last.instr, 1)]
            /\ cpu.v[Nibble(last.instr, 2)] = last.v[Nibble(last.instr, 2)]
            /\ cpu.display.active_planes = last.display.active_planes)
        => /\ cpu'.display.planes = last.display.planes
           /\ cpu'.v[15] = IF pixel_cleared(cpu.display, last.display)
                           THEN 1 ELSE 0]_vars

\* the second of two equal draws over a sprite drawn before them, with a
\* collision, at a place where the sprite wraps at the right edge
C18Witness ==
    /\ last.res = "ok" /\ drw_opcode(last.instr)
    /\ last.before.res = "ok" /\ last.before.instr = last.instr
    /\ cpu.v[15] = 1
    /\ cpu.display.planes[1].cells # Empty
    /\ cpu.v[0] > WIDTH - 8
    /\ ~cpu.display.extended

\* the display e has the given size, both planes of that size and all zero,
\* and the plane selection of the display d
switched(d, e, height, width) ==
    /\ e.height = height /\ e.width = width
    /\ \A i \in 1..2 : /\ e.planes[i].cells = Empty
                       /\ e.planes[i].height = height
                       /\ e.planes[i].width = width
    /\ e.active_planes = d.active_planes

\* C19: a tick that executes 00FF leaves a display of width 128 and height 64
\* with every plane all zero and active_planes as it was; a tick that
\* executes 00FE leaves a display of width 64 and height 32 likewise.
C19ModeSwitch ==
    [][tick_done =>
        /\ last'.instr = 255 => switched(cpu.display, cpu'.display, 2 * HEIGHT, 2 * WIDTH)
        /\ last'.instr = 254 => switched(cpu.display, cpu'.display, HEIGHT, WIDTH)]_vars

\* 00FF executed in the standard mode with plane 2 selected and a sprite on it
C19Witness ==
    /\ last.res = "ok" /\ last.instr = 255
    /\ ~last.display.extended
    /\ last.display.active_planes = 2
    /\ last.display.planes[2].cells # Empty
    /\ cpu.display.extended /\ cpu.display.width = 2 * WIDTH
    /\ cpu.display.active_planes = 2

\* the word is 8xy4
add_opcode(instr) == Nibble(instr, 0) = 8 /\ Nibble(instr, 3) = 4

\* the registers w are what ADD Vx,Vy makes of the registers v
added(v, w, x, y) ==
    /\ w[15] = IF v[x] + v[y] > 255 THEN 1 ELSE 0
    /\ x # 15 => w[x] = (v[x] + v[y]) % 256

\* C20: a tick that executes 8xy4 with a = V[x] and b = V[y] leaves
\* V[0xF] = 1 if a + b > 255 and 0 otherwise, and for x # 0xF
\* V[x] = (a + b) mod 256.
C20AddCarry ==
    [][(tick_done /\ add_opcode(last'.instr))
        => added(cpu.v, cpu'.v, Nibble(last'.instr, 1), Nibble(last'.instr, 2))]_vars

\* ADD V0,VF with V0 = 0xC1 and VF = 0x81: V0 = 0x42 and VF = 1
C20Witness ==
    /\ last.res = "ok" /\ last.instr = 33012
    /\ last.v[0] = 193 /\ last.v[15] = 129
    /\ cpu.v[0] = 66 /\ cpu.v[15] = 1

\* the word is 8xy5 (SUB) or 8xy7 (SUBN)
sub_opcode(instr) == Nibble(instr, 0) = 8 /\ Nibble(instr, 3) = 5

subn_opcode(instr) == Nibble(instr, 0) = 8 /\ Nibble(instr, 3) = 7

\* the registers w are what a subtraction a - b into V[x] makes of them
subtracted(w, x, a, b) ==
    /\ w[15] = IF a >= b THEN 1 ELSE 0
    /\ x # 15 => w[x] = (a - b + 256) % 256

\* C21: a tick that executes 8xy5 with a = V[x] and b = V[y] leaves
\* V[0xF] = 1 if a >= b and 0 otherwise, and for x # 0xF V[x] = (a - b) mod 256;
\* a tick that executes 8xy7 leaves V[0xF] = 1 if b >= a and 0 otherwise, and
\* for x # 0xF V[x] = (b - a) mod 256.
C21SubBorrow ==
    [][tick_done =>
        /\ sub_opcode(last'.instr)
             => subtracted(cpu'.v, Nibble(last'.instr, 1),
                           cpu.v[Nibble(last'.instr, 1)], cpu.v[Nibble(last'.instr, 2)])
        /\ subn_opcode(last'.instr)
             => subtracted(cpu'.v, Nibble(last'.instr, 1),
                           cpu.v[Nibble(last'.instr, 2)], cpu.v[Nibble(last'.instr, 1)])]_vars

\* SUBN V0,VF with V0 = 0x81 and VF = 0x40: V0 = 0xBF and VF = 0
C21Witness ==
    /\ last.res = "ok" /\ last.instr = 33015
    /\ last.v[0] = 129 /\ last.v[15] = 64
    /\ cpu.v[0] = 191 /\ cpu.v[15] = 0

\* the word is 8xy6 (SHR) or 8xyE (SHL)
shr_opcode(instr) == Nibble(instr, 0) = 8 /\ Nibble(instr, 3) = 6

shl_opcode(instr) == Nibble(instr, 0) = 8 /\ Nibble(instr, 3) = 14

\* C22: a tick that executes 8xy6 leaves V[0xF] = bit 0 of the V[y] it
\* found, and a tick that executes 8xyE leaves V[0xF] = bit 7 of the V[y] it
\* found, for every x and y.
C22ShiftFlag ==
    [][tick_done =>
        /\ shr_opcode(last'.instr) => cpu'.v[15] = cpu.v[Nibble(last'.instr, 2)] % 2
        /\ shl_opcode(last'.instr)
             => cpu'.v[15] = Shr(cpu.v[Nibble(last'.instr, 2)], 7) % 2]_vars

\* the word is Bnnn
jump_v0_opcode(instr) == Nibble(instr, 0) = 11

\* C23: a tick that executes Bnnn leaves PC = nnn + V[0], whatever the
\* second nibble of the word is, with no 2 added.
C23JumpV0 ==
    [][(tick_done /\ jump_v0_opcode(last'.instr))
        => cpu'.pc = (last'.instr % 4096) + cpu.v[0]]_vars

\* JP V0,0x310 with V0 = 0x41 and V3 = 6: PC = 0x351
C23Witness ==
    /\ last.res = "ok" /\ last.instr = 45840
    /\ last.v[0] = 65 /\ last.v[3] = 6 /\ cpu.pc = 849

\* the words 5xy2 and 5xy3
save_range_opcode(instr) == Nibble(instr, 0) = 5 /\ Nibble(instr, 3) = 2

load_range_opcode(instr) == Nibble(instr, 0) = 5 /\ Nibble(instr, 3) = 3

\* the register that byte k of the range from x to y belongs to: upwards
\* from x when x <= y, downwards from x when x > y
range_register(x, y, k) == IF x <= y THEN x + k ELSE x - k

\* the number of registers between x and y, both included
range_len(x, y) == (IF x <= y THEN y - x ELSE x - y) + 1

\* C28: a tick that executes 5xy2 returns and leaves the registers between
\* x and y, both included, in memory from I on; a tick that executes 5xy3
\* returns and leaves as many bytes of memory from I on in these registers;
\* this for x <= y and for x > y; I is as it was.
C28RangeCopy ==
    [][(last'.n = last.n + 1
            /\ (save_range_opcode(last'.instr) \/ load_range_opcode(last'.instr)))
        => LET x == Nibble(last'.instr, 1)
               y == Nibble(last'.instr, 2)
           IN  /\ last'.res = "ok"
               /\ cpu'.i = cpu.i
               /\ save_range_opcode(last'.instr)
                    => \A k \in 0..(range_len(x, y) - 1) :
                          Get(cpu'.memory, cpu.i + k) = cpu.v[range_register(x, y, k)]
               /\ load_range_opcode(last'.instr)
                    => \A k \in 0..(range_len(x, y) - 1) :
                          cpu'.v[range_register(x, y, k)] = Get(cpu.memory, cpu.i + k)]_vars

\* the word F000
ld_i_long_opcode(instr) == instr = 61440

\* C29: a tick that executes F000 NNNN at address P leaves I = the
\* big-endian word at P + 2 and PC = P + 4.
C29LongLoad ==
    [][(tick_done /\ ld_i_long_opcode(last'.instr))
        => /\ cpu'.i = Get(cpu.memory, cpu.pc + 2) * 256 + Get(cpu.memory, cpu.pc + 3)
           /\ cpu'.pc = cpu.pc + 4]_vars

\* F000 1234 at 0x200 has run, I = 0x1234, and the tick after it fetched the
\* word at 0x204
C29Witness ==
    /\ last.res = "ok" /\ last.pc = 516 /\ last.instr = 24833
    /\ last.before.instr = 61440 /\ last.before.pc = 512
    /\ cpu.i = 4660 /\ cpu.v[1] = 1

\* C30: before any tick, a program of at most MEMSIZE - 0x200 bytes is in
\* memory from 0x200 on, byte for byte, with PC = 0x200, SP = 0 and every
\* register zero; for a longer program Cpu::new has returned an error.
C30LoadOrReject ==
    last.n = 0 =>
        IF Len(last.code) <= MEMSIZE - 512
        THEN /\ last.res = "none"
             /\ Slice(cpu.memory, 512, Len(last.code)) = last.code
             /\ cpu.pc = 512 /\ cpu.sp = 0 /\ \A k \in 0..15 : cpu.v[k] = 0
        ELSE last.res = "err"

(***************************************************************************)
(* Claims about the timers (SpecClock, SpecCpu).                           *)
(***************************************************************************)
\* the words Fx07, Fx15 and Fx18
ld_vx_dt_opcode(instr) ==
    Nibble(instr, 0) = 15 /\ Nibble(instr, 2) = 0 /\ Nibble(instr, 3) = 7

ld_dt_opcode(instr) ==
    Nibble(instr, 0) = 15 /\ Nibble(instr, 2) = 1 /\ Nibble(instr, 3) = 5

ld_st_opcode(instr) ==
    Nibble(instr, 0) = 15 /\ Nibble(instr, 2) = 1 /\ Nibble(instr, 3) = 8

\* floor(t * f * m) for t milliseconds, f = 60 and m = 1, in exact arithmetic
whole_steps(ms) == (ms * FREQ_HZ) \div 1000

\* max(0, v - (floor(t * f * m) - floor(s * f * m)))
decayed(v, s, t) ==
    IF v - (whole_steps(t) - whole_steps(s)) > 0
    THEN v - (whole_steps(t) - whole_steps(s)) ELSE 0

\* C24: a read of the delay timer at time t after set(v) at time s gives
\* max(0, v - (floor(t * f * m) - floor(s * f * m))): v right after the set,
\* never less than 0, and 0 from 1.0 s after set(60) on.
C24TimerValue ==
    [][tick_done =>
        /\ ld_dt_opcode(last'.instr)
             => get_reg(cpu'.dt, now) = cpu.v[Nibble(last'.instr, 1)]
        /\ ld_vx_dt_opcode(last'.instr)
             => /\ cpu'.v[Nibble(last'.instr, 1)]
                      = decayed(cpu.dt.reg_value, cpu.dt.last_update - cpu.dt.start,
                                now - cpu.dt.start)
                /\ (cpu.dt.reg_value = 60 /\ now - cpu.dt.last_update >= 1000)
                      => cpu'.v[Nibble(last'.instr, 1)] = 0]_vars

\* C25: while the delay timer is not set, a read at a later time gives no
\* more than a read at an earlier time, and at most 1 less when the two are
\* at most 10 ms apart.
C25TimerMonotone ==
    [][cpu'.dt = cpu.dt =>
        /\ get_reg(cpu'.dt, now') <= get_reg(cpu.dt, now)
        /\ now' - now <= 10 => get_reg(cpu.dt, now) - get_reg(cpu'.dt, now') <= 1]_vars

\* DT was set to 2, Fx07 has read 2 and then 1, and by now the timer is at 0
C25Witness ==
    /\ cpu.dt.reg_value = 2 /\ cpu.v[1] = 2 /\ cpu.v[2] = 1
    /\ get_reg(cpu.dt, now) = 0

\* C26: time_left of the sound timer is None whenever the value get_reg gives
\* is 0, and otherwise the time this value takes to reach 0 (in 1/60 s).
C26TimeLeft ==
    time_left(cpu.st) =
        IF get_reg(cpu.st, now) = 0 THEN <<>> ELSE <<get_reg(cpu.st, now)>>

\* C27: a tick that executes Fx18 with V[x] # 0 hands the 16 bytes of the
\* pattern buffer and the duration V[x] (in 1/60 s) to play_samples_1bit,
\* once; a tick that executes Fx18 with V[x] = 0, or any other word, hands
\* over nothing.
C27PlayOnArm ==
    [][tick_done =>
        last'.played =
            IF ld_st_opcode(last'.instr) /\ cpu.v[Nibble(last'.instr, 1)] # 0
            THEN <<cpu.sound_memory, cpu.v[Nibble(last'.instr, 1)]>>
            ELSE <<>>]_vars

\* F018 with V0 = 60 has handed over the pattern that F002 loaded (the
\* sprite bytes of digit 0 first) for 60/60 s
C27Witness ==
    /\ last.res = "ok" /\ last.instr = 61464 /\ last.v[0] = 60
    /\ last.played = <<cpu.sound_memory, 60>>
    /\ cpu.sound_memory[0] = 240 /\ cpu.sound_memory[15] = 240

(***************************************************************************)
(* Claims about the frame, the registers and the planes (SpecRom).         *)
(***************************************************************************)
\* the bit of plane p at pixel (row, col): bit 7 - col mod 8 of the byte
\* col / 8 of the row, as get_byte and set_byte address it
plane_bit(p, row, col) == Shr(row_byte(p, row, col \div 8), 7 - (col % 8)) % 2

\* the pixels (row-major, from 0) of the bytes of the picture that are not
\* zero in some plane of display d, and the first and the last pixel
lit_pixels(d) ==
    {0, d.height * d.width - 1}
    \cup {8 * a + bit : a \in {x \in DOMAIN d.planes[1].cells \cup DOMAIN d.planes[2].cells :
                                   x < d.height * (d.width \div 8)},
                         bit \in 0..7}

\* the colour the two planes of display d give pixel (row, col)
pixel_colour(d, row, col) ==
    d.colors[plane_bit(d.planes[1], row, col) + 2 * plane_bit(d.planes[2], row, col) + 1]

\* C31: to_buf gives height * width entries in row-major order, the entry of
\* pixel (row, col) being colors[p0 + 2 * p1] for the bits p0 and p1 of plane
\* 0 and plane 1 at that pixel (checked at every pixel of a byte that is not
\* zero in some plane, at the first and at the last pixel).
C31FrameBuffer ==
    /\ buf_len(cpu.display) = cpu.display.height * cpu.display.width
    /\ \A k \in lit_pixels(cpu.display) :
          to_buf(cpu.display)[k + 1]
             = pixel_colour(cpu.display, k \div cpu.display.width, k % cpu.display.width)

\* a display whose frame has all four colours: pixels set on plane 0 only,
\* on plane 1 only, on both and on none
C31Witness ==
    /\ cpu.display.active_planes = 3
    /\ \E k \in lit_pixels(cpu.display) : to_buf(cpu.display)[k + 1] = DefaultColors[1]
    /\ \E k \in lit_pixels(cpu.display) :
          /\ to_buf(cpu.display)[k + 1] = DefaultColors[2]
          /\ plane_bit(cpu.display.planes[1], k \div cpu.display.width,
                       k % cpu.display.width) = 1
    /\ \E k \in lit_pixels(cpu.display) :
          /\ to_buf(cpu.display)[k + 1] = DefaultColors[3]
          /\ plane_bit(cpu.display.planes[2], k \div cpu.display.width,
                       k % cpu.display.width) = 1
    /\ \E k \in lit_pixels(cpu.display) : to_buf(cpu.display)[k + 1] = DefaultColors[4]

\* C32: from the state Cpu::new gives for the program 60 05 70 03, two ticks
\* leave V0 = 8, PC = 0x204, SP = 0 and VF = 0, and every other register, I
\* and the display as they were.
C32LoadAdd ==
    (last.code = ProgAdd /\ last.n = 2)
        => /\ last.res = "ok"
           /\ cpu.v = [k \in 0..15 |-> IF k = 0 THEN 8 ELSE 0]
           /\ cpu.pc = 516 /\ cpu.sp = 0 /\ cpu.i = 0
           /\ cpu.display = display_new(HEIGHT, WIDTH)

\* the two ticks have run: 7003 was the second, on V0 = 5
C32Witness ==
    /\ last.code = ProgAdd /\ last.n = 2
    /\ last.instr = 28675 /\ last.before.instr = 24581
    /\ last.v[0] = 5 /\ cpu.v[0] = 8

\* C33: a tick that executes 8xy6 with x # 0xF leaves V[x] = b >> 1, and a
\* tick that executes 8xyE with x # 0xF leaves V[x] = (b << 1) mod 256, for
\* the value b that V[y] had before the instruction, also for y = 0xF and
\* y = x.
C33ShiftValue ==
    [][(tick_done /\ Nibble(last'.instr, 1) # 15) =>
        /\ shr_opcode(last'.instr)
             => cpu'.v[Nibble(last'.instr, 1)] = Shr(cpu.v[Nibble(last'.instr, 2)], 1)
        /\ shl_opcode(last'.instr)
             => cpu'.v[Nibble(last'.instr, 1)]
                   = (cpu.v[Nibble(last'.instr, 2)] * 2) % 256]_vars

\* the rows of the sprite a Dxyn word draws and the bytes of one row
drw_rows(instr) == IF Nibble(instr, 3) = 0 THEN 16 ELSE Nibble(instr, 3)

drw_row_bytes(instr) == IF Nibble(instr, 3) = 0 THEN 2 ELSE 1

\* where in memory the sprite of plane pl starts: with both planes selected
\* the second half of the bytes is the sprite of plane 1
drw_base(c, instr, pl) ==
    c.i + (IF c.display.active_planes = 3
           THEN pl * drw_rows(instr) * drw_row_bytes(instr) ELSE 0)

\* the bit that the sprite of plane pl has for pixel (row, col) when the word
\* instr is executed by c: bit 7 - j mod 8 of byte j / 8 of sprite row i, for
\* row = ((Vy mod height) + i) mod height, col = ((Vx mod width) + j) mod width
drw_bit(c, instr, pl, row, col) ==
    LET d == c.display
        i == (row + d.height - (c.v[Nibble(instr, 2)] % d.height)) % d.height
        j == (col + d.width - (c.v[Nibble(instr, 1)] % d.width)) % d.width
    IN  IF i < drw_rows(instr) /\ j < 8 * drw_row_bytes(instr)
        THEN Shr(Get(c.memory, drw_base(c, instr, pl) + i * drw_row_bytes(instr)
                                  + (j \div 8)), 7 - (j % 8)) % 2
        ELSE 0

\* the pixels (row-major, from 0) the sprite of the word instr covers
drw_pixels(c, instr) ==
    {(((c.v[Nibble(instr, 2)] % c.display.height) + i) % c.display.height) * c.display.width
        + (((c.v[Nibble(instr, 1)] % c.display.width) + j) % c.display.width) :
        i \in 0..(drw_rows(instr) - 1), j \in 0..(8 * drw_row_bytes(instr) - 1)}

\* every pixel of the selected planes of display e is the pixel of display
\* c.display xor the sprite bit for it, and the other planes are as they were
drawn(c, instr, e) ==
    \A pl \in 0..1 :
        \A k \in lit_pixels(c.display) \cup lit_pixels(e) \cup drw_pixels(c, instr) :
            plane_bit(e.planes[pl + 1], k \div e.width, k % e.width)
              = (plane_bit(c.display.planes[pl + 1], k \div e.width, k % e.width)
                 + (IF plane_active(c.display, pl)
                    THEN drw_bit(c, instr, pl, k \div e.width, k % e.width) ELSE 0)) % 2

\* C34: a tick that executes DRW returns with sprite row i xor-ed into display
\* row ((Vy mod height) + i) mod height at the columns ((Vx mod width) + j) mod
\* width of that row, j = 0..7 (0..15 for the 16 x 16 form), and with no other
\* pixel changed.
C34SpritePlacement ==
    [][(last'.n = last.n + 1 /\ drw_opcode(last'.instr))
        => /\ last'.res = "ok"
           /\ cpu'.display.width = cpu.display.width
           /\ cpu'.display.height = cpu.display.height
           /\ drawn(cpu, last'.instr, cpu'.display)]_vars

\* C35: a tick that executes DRW and returns, with both planes selected, has
\* xor-ed the first half of the 2n bytes at I (64 bytes for n = 0) onto plane
\* 0 and the second half onto plane 1 at the same place, and leaves V[0xF] = 1
\* exactly when a pixel was cleared on one of the two planes; with one plane
\* selected it has xor-ed the n bytes at I (32 for n = 0) onto that plane and
\* left the other plane as it was.
C35PlaneSplit ==
    [][(tick_done /\ drw_opcode(last'.instr) /\ cpu.display.active_planes \in 1..3)
        => /\ drawn(cpu, last'.instr, cpu'.display)
           /\ \A pl \in 0..1 :
                 ~plane_active(cpu.display, pl)
                    => cpu'.display.planes[pl + 1] = cpu.display.planes[pl + 1]
           /\ cpu.display.active_planes = 3
                 => cpu'.v[15] = IF \/ pixel_lost(cpu.display.planes[1], cpu'.display.planes[1])
                                    \/ pixel_lost(cpu.display.planes[2], cpu'.display.planes[2])
                                 THEN 1 ELSE 0]_vars

\* a draw on both planes that cleared a pixel on plane 0 and none on plane 1,
\* the two planes showing different pictures
C35Witness ==
    /\ last.res = "ok" /\ drw_opcode(last.instr)
    /\ last.display.active_planes = 3
    /\ cpu.v[15] = 1
    /\ pixel_lost(last.display.planes[1], cpu.display.planes[1])
    /\ ~pixel_lost(last.display.planes[2], cpu.display.planes[2])
    /\ cpu.display.planes[2].cells # Empty
    /\ cpu.display.planes[1].cells # cpu.display.planes[2].cells

(***************************************************************************)
(* Claims about the display's update flag (Spec).                          *)
(***************************************************************************)
\* the word is 0xE0 (clear)
clear_opcode(instr) ==
    Nibble(instr, 0) = 0 /\ Nibble(instr, 2) = 14 /\ Nibble(instr, 3) = 0

\* the word is a clear, a scroll or a draw
display_write_opcode(instr) ==
    \/ clear_opcode(instr) \/ drw_opcode(instr)
    \/ scroll_down_opcode(instr) \/ scroll_up_opcode(instr)
    \/ scroll_right_opcode(instr) \/ scroll_left_opcode(instr)

\* the step is a tick that executed a clear, a scroll or a draw and returned
display_written == tick_done /\ display_write_opcode(last'.instr)

\* C36: updated and updates are changed only by a clear, a scroll or a draw,
\* each of which sets updated and adds exactly 1 to updates; no other step of
\* the engine or of the scheduler loop writes either of them.
C36UpdateFlag ==
    [][IF display_written
       THEN cpu'.display.updated /\ cpu'.display.updates = cpu.display.updates + 1
       ELSE /\ cpu'.display.updated = cpu.display.updated
            /\ cpu'.display.updates = cpu.display.updates]_vars

\* C36 as the code has it: updates is changed only by a clear, a scroll or a
\* draw, each of which sets updated and adds exactly 1 to updates; the only
\* other write is the scheduler loop's, which sets updated to false when
\* send_display has returned and leaves updates.
C36UpdateFlagResetByLoop ==
    [][IF display_written
       THEN cpu'.display.updated /\ cpu'.display.updates = cpu.display.updates + 1
       ELSE /\ cpu'.display.updates = cpu.display.updates
            /\ cpu'.display.updated # cpu.display.updated
                  => /\ ~cpu'.display.updated
                     /\ eng \in {"notify", "payload"}
                     /\ last' = last]_vars

\* the sprite was drawn, the screen cleared and scrolled (three writes), and
\* the loop has reset the flag after the latest of them
C36Witness ==
    /\ cpu.display.updates = 3
    /\ ~cpu.display.updated
    /\ last.res = "ok" /\ scroll_down_opcode(last.instr)
    /\ last.before.res = "ok" /\ clear_opcode(last.before.instr)
    /\ last.display.updates = 2 /\ ~last.display.updated

(***************************************************************************)
(* Claims about the call stack, the plane selection, the saved registers   *)
(* and the wait for a key (SpecCpu, SpecRom).                              *)
(***************************************************************************)
\* C37: the stack holds 16 return addresses: a CALL executed with SP < 16
\* stores its return address and returns with SP one higher, a RET executed
\* with SP > 0 returns with SP one lower, and 0 <= SP <= 16 in every state.
C37CallStack ==
    /\ cpu.sp \in 0..16
    /\ (last.res # "none" /\ Nibble(last.instr, 0) = 2 /\ last.sp < 16)
          => (last.res = "ok" /\ cpu.sp = last.sp + 1 /\ cpu.stack[cpu.sp] = last.pc)
    /\ (last.res # "none" /\ last.instr = 238 /\ last.sp > 0)
          => (last.res = "ok" /\ cpu.sp = last.sp - 1)

\* C38: active_planes is a mask in 0..3 in every state, whatever n the words
\* Fn01 executed had, and both planes have the width and height of the
\* display, which are 64 x 32 or 128 x 64.
C38PlaneMask ==
    /\ cpu.display.active_planes \in 0..3
    /\ \A i \in 1..2 : /\ cpu.display.planes[i].width = cpu.display.width
                       /\ cpu.display.planes[i].height = cpu.display.height
    /\ <<cpu.display.width, cpu.display.height>>
          \in {<<WIDTH, HEIGHT>>, <<2 * WIDTH, 2 * HEIGHT>>}

\* the value register k has when the third word of ProgRepl saves it
repl_saved(k) == CASE k = 0 -> 17 [] k = 1 -> 34 [] OTHER -> 0

\* C39: registers V0..Vx saved with Fx75 and restored with Fx85 (same x, from
\* 0 to 15) have, after the restore, the values they had at the save, whatever
\* they were changed to in between: in the run of ProgRepl(x) the save
\* returns, the restore returns, and V0..Vx are 0x11, 0x22, 0, .. again.
C39ReplRoundTrip ==
    \A x \in ReplRegisters :
        last.code = ProgRepl(x)
          => /\ last.n = 3 => last.res = "ok"
             /\ last.n = 6 => /\ last.res = "ok"
                              /\ \A k \in 0..x : cpu.v[k] = repl_saved(k)

\* the latest tick executed Fx0A and left PC on it: the wait is pending
wait_pending == last.res = "ok" /\ wait_key_opcode(last.instr) /\ cpu.pc = last.pc

\* the latest tick executed Fx0A, stored the index of a key in Vx and went on
wait_completed ==
    /\ last.res = "ok" /\ wait_key_opcode(last.instr) /\ cpu.pc = last.pc + 2
    /\ cpu.v[Nibble(last.instr, 1)] \in 0..15

\* key k has gone Down since the pending Fx0A was last executed, and ticks
\* are still to come
newly_down(k) ==
    /\ wait_pending
    /\ cpu.keyboard.keys[k] = "Down" /\ cpu.keyboard.prev_keys[k] = "Up"
    /\ cpu.clock_steps < MaxWaitSteps

\* C40: when a key that was Up goes Down while Fx0A is pending, then, unless
\* the key goes Up again, Fx0A completes (a key index in Vx, PC advanced by
\* 2), whatever other keys are held; and a tick that executes Fx0A without
\* completing leaves PC, I, SP, the memory, the display and the V registers.
C40WaitCompletes ==
    /\ \A k \in DirectKeys :
          newly_down(k) ~> (wait_completed \/ cpu.keyboard.keys[k] = "Up")
    /\ [][(tick_done /\ wait_key_opcode(last'.instr) /\ cpu'.pc = cpu.pc)
            => /\ cpu'.i = cpu.i /\ cpu'.sp = cpu.sp /\ cpu'.v = cpu.v
               /\ cpu'.memory = cpu.memory /\ cpu'.display = cpu.display]_vars

====
